---------------------------- MODULE Spec2Model ----------------------------
(***************************************************************************)
(* Model of the page-processor detection core (python/page-processor).     *)
(*                                                                         *)
(* Every detector is a function of an image; the model keeps the image's   *)
(* size exactly and replaces the pixel content by the quantities that the  *)
(* external image library (cv2 / numpy) derives from it and that the       *)
(* Python code branches on: curve confidences, bounding-box extents, line  *)
(* angles, densities.  Each action is one call of one entry point: it      *)
(* draws the arguments, applies the function as the source computes it and *)
(* records the call in op / arg and its outcome in ret.                    *)
(*                                                                         *)
(* Real arithmetic is fixed point: every quantity is an integer count of a *)
(* unit named beside it.  int(), round() and // are modelled by what they  *)
(* do (truncation, round-half-to-even, floor).                             *)
(***************************************************************************)
EXTENDS Integers, Sequences, FiniteSets, TLC

VARIABLES
    op,                  \* name of the entry point called last ("none" at start)
    arg,                 \* the arguments of that call
    ret,                 \* its outcome: a returned value or a raised exception
    pd_dewarp_available, \* dewarp.py module global _pd_dewarp_available
    page_dewarp_installed, \* the package page_dewarp can be imported
    observed             \* history: the outcomes seen so far for each call

vars == <<op, arg, ret, pd_dewarp_available, page_dewarp_installed, observed>>

---------------------------------------------------------------------------
(* Bounds of the model.                                                    *)

\* Small image sides are enumerated exhaustively from 1 to MaxSmallDim.
MaxSmallDim == 24

\* Positions inside a range are sampled at k / PosSteps of the range.
PosSteps == 3

\* Larger sides: around the analysis cap (1500) and far above it, so that the
\* downscaled side can be anything from the cap down to a single pixel.
LargeDims == {100, 1500, 1501, 3001, 30000}

Dims == (1 .. MaxSmallDim) \cup LargeDims

---------------------------------------------------------------------------
(* Arithmetic helpers.                                                     *)

Abs(x) == IF x < 0 THEN -x ELSE x

Sign(x) == IF x > 0 THEN 1 ELSE IF x < 0 THEN -1 ELSE 0

Min(a, b) == IF a <= b THEN a ELSE b

Max(a, b) == IF a >= b THEN a ELSE b

\* Python round() of the non-negative rational n / d: to nearest, ties to even.
RoundHalfEven(n, d) ==
    LET q == n \div d
        r == n % d
    IN  IF 2 * r < d THEN q
        ELSE IF 2 * r > d THEN q + 1
        ELSE IF q % 2 = 0 THEN q ELSE q + 1

\* Python round() of a signed rational n / d (d > 0).
RoundSigned(n, d) == Sign(n) * RoundHalfEven(Abs(n), d)

\* The k-th of PosSteps + 1 evenly spaced integers of lo .. hi (lo <= hi).
Sample(lo, hi, k) == lo + ((hi - lo) * k) \div PosSteps

Samples(lo, hi) == { Sample(lo, hi, k) : k \in 0 .. PosSteps }

\* Outcomes of a call.
Returned(v) == [kind |-> "return", value |-> v]

Raised(e) == [kind |-> "raise", value |-> e]

None == [none |-> TRUE]

---------------------------------------------------------------------------
(* detection._resize_for_analysis / split._resize_for_analysis             *)

MaxDim == 1500

\* (resized height, resized width, scale as the fraction num / den).
ResizeForAnalysis(h, w) ==
    LET m == Max(h, w)
    IN  IF m <= MaxDim
        THEN [h |-> h, w |-> w, num |-> 1, den |-> 1]
        ELSE [h |-> Max(1, RoundHalfEven(h * MaxDim, m)),
              w |-> Max(1, RoundHalfEven(w * MaxDim, m)),
              num |-> MaxDim, den |-> m]

---------------------------------------------------------------------------
(* detection.detect_content_bounds                                         *)

\* Width of the border ring that is zeroed: int(round(min(shape) * 0.01)).
BorderRing(hs, ws) == RoundHalfEven(Min(hs, ws), 100)

\* The foreground extents that can remain after the ring is zeroed: None, or
\* first/last foreground column and row, all inside the ring.
ForegroundBoxes(hs, ws) ==
    LET b == BorderRing(hs, ws)
        xs == IF ws - 1 - b < b THEN {} ELSE Samples(b, ws - 1 - b)
        ys == IF hs - 1 - b < b THEN {} ELSE Samples(b, hs - 1 - b)
    IN  {None} \cup
        { bx \in [x1 : xs, x2 : xs, y1 : ys, y2 : ys] :
            bx.x1 <= bx.x2 /\ bx.y1 <= bx.y2 }

\* Mutant: an extent of exactly one tenth is rejected too.
BelowTenthInclusive(extent, side) == 10 * extent <= side

\* bw_s < shape * 0.1, on integers.
BelowTenth(extent, side) == 10 * extent < side

\* Mutant: the origin is clamped but the extent is not cut to the image.
ClampBoxOriginOnly(x, y, bw, bh, w, h) ==
    [x |-> Max(0, Min(x, w - 1)), y |-> Max(0, Min(y, h - 1)),
     width |-> Max(1, bw), height |-> Max(1, bh)]

\* detection.py 476-480: clamp to the original image bounds.
ClampBox(x, y, bw, bh, w, h) ==
    LET cx == Max(0, Min(x, w - 1))
        cy == Max(0, Min(y, h - 1))
    IN  [x |-> cx, y |-> cy,
         width |-> Max(1, Min(bw, w - cx)),
         height |-> Max(1, Min(bh, h - cy))]

\* fg: None or the foreground extents in analysis coordinates.
DetectContentBounds(h, w, fg) ==
    LET an == ResizeForAnalysis(h, w)
    IN  IF fg = None THEN None
        ELSE LET bw_s == fg.x2 - fg.x1 + 1
                 bh_s == fg.y2 - fg.y1 + 1
             IN  IF BelowTenth(bw_s, an.w) \/ BelowTenth(bh_s, an.h) THEN None
                 ELSE ClampBox(RoundHalfEven(fg.x1 * an.den, an.num),
                               RoundHalfEven(fg.y1 * an.den, an.num),
                               RoundHalfEven(bw_s * an.den, an.num),
                               RoundHalfEven(bh_s * an.den, an.num),
                               w, h)

---------------------------------------------------------------------------
(* Specification of the content-bounds locator: the initial states are the *)
(* pending calls, the action runs the call.                                *)

Pending == [kind |-> "pending", value |-> None]

\* The module-level state outside a call.
Globals ==
    /\ pd_dewarp_available = "None"
    /\ page_dewarp_installed \in BOOLEAN
    /\ observed = {}

InitBounds ==
    /\ op = "detect_content_bounds"
    /\ \E w \in Dims, h \in Dims :
         \E fg \in ForegroundBoxes(ResizeForAnalysis(h, w).h,
                                   ResizeForAnalysis(h, w).w) :
           arg = [w |-> w, h |-> h, fg |-> fg]
    /\ ret = Pending
    /\ Globals

CallDetectContentBounds ==
    /\ op = "detect_content_bounds"
    /\ ret = Pending
    /\ ret' = Returned(DetectContentBounds(arg.h, arg.w, arg.fg))
    /\ UNCHANGED <<op, arg, pd_dewarp_available, page_dewarp_installed, observed>>

SpecBounds == InitBounds /\ [][CallDetectContentBounds]_vars

---------------------------------------------------------------------------
(* split.find_gutter_position                                              *)
(*                                                                         *)
(* The three smoothed curves enter only through the index the score curve  *)
(* peaks at and the low band _band_edges grows around it; both are given   *)
(* as positions inside the search window.                                  *)

\* Half-width of the low band grown on either side of the peak, at most.
MaxBand == 3

\* int(ws * 0.10), int(ws * 0.90)
SearchStart(ws) == (ws * 10) \div 100

SearchEnd(ws) == (ws * 90) \div 100

\* end <= start + 10: the window is too narrow to search.
WindowTooNarrow(ws) == SearchEnd(ws) <= SearchStart(ws) + 10

\* edge_pad = max(3, region_w // 50): the argmax never falls in the pad.
EdgePad(region_w) == Max(3, region_w \div 50)

\* np.clip(v, lo, hi)
Clip(v, lo, hi) == Min(Max(v, lo), hi)

\* int(w * 0.03), int(w * 0.97)
MinGutterX(w) == (w * 3) \div 100

MaxGutterX(w) == (w * 97) \div 100

\* Mutant: the centre of the analysis image, not mapped back to the original.
NarrowWindowCentreUnmapped(w, ws) == ws \div 2

\* split.py 125-126: the centre of the original image.
NarrowWindowCentre(w, ws) == w \div 2

\* split.py 233-235
ClampGutter(gutter_x, w) == Max(MinGutterX(w), Min(MaxGutterX(w), gutter_x))

\* _band_edges(band_curve, idx) = (left, right) inclusive, idx inside it and
\* both inside the curve: the band reaches bl columns left and br right.
BandEdges(n, idx, bl, br) ==
    LET j == Max(0, Min(n - 1, idx))
    IN  [left |-> Max(0, j - bl), right |-> Min(n - 1, j + br)]

\* The peak index of the score curve: outside the pads when some index is,
\* else region_w // 2 (every score is -inf).
PeakIndices(region_w) ==
    LET pad == EdgePad(region_w)
    IN  IF pad <= region_w - 1 - pad
        THEN Samples(pad, region_w - 1 - pad)
        ELSE {region_w \div 2}

\* peak: the argmax index; bl, br: the band's reach on either side.
FindGutterPosition(h, w, peak, bl, br) ==
    LET an == ResizeForAnalysis(h, w)
        start == SearchStart(an.w)
        end == SearchEnd(an.w)
    IN  IF WindowTooNarrow(an.w) THEN NarrowWindowCentre(w, an.w)
        ELSE LET region_w == end - start
                 band == BandEdges(region_w, peak, bl, br)
                 band_center_idx == (band.left + band.right) \div 2
                 split_small == Clip(start + band_center_idx, start + 1, end - 1)
                 gutter_x == RoundHalfEven(split_small * an.den, an.num)
             IN  ClampGutter(gutter_x, w)

\* The peaks an image of analysis width ws can have (0 when there is no search).
GutterPeaks(ws) ==
    IF WindowTooNarrow(ws) THEN {0}
    ELSE PeakIndices(SearchEnd(ws) - SearchStart(ws))

InitGutter ==
    /\ op = "find_gutter_position"
    /\ \E w \in Dims, h \in Dims :
         \E peak \in GutterPeaks(ResizeForAnalysis(h, w).w) :
           \E bl \in 0 .. MaxBand, br \in 0 .. MaxBand :
             /\ WindowTooNarrow(ResizeForAnalysis(h, w).w) => (bl = 0 /\ br = 0)
             /\ arg = [w |-> w, h |-> h, peak |-> peak, bl |-> bl, br |-> br]
    /\ ret = Pending
    /\ Globals

CallFindGutterPosition ==
    /\ op = "find_gutter_position"
    /\ ret = Pending
    /\ ret' = Returned(FindGutterPosition(arg.h, arg.w, arg.peak, arg.bl, arg.br))
    /\ UNCHANGED <<op, arg, pd_dewarp_available, page_dewarp_installed, observed>>

SpecGutter == InitGutter /\ [][CallFindGutterPosition]_vars

---------------------------------------------------------------------------
(* detection.detect_facing_pages                                           *)
(*                                                                         *)
(* f holds what the image library measures on the analysis image:          *)
(*   valley_conf, edge_conf, shadow_conf   ladder confidences, in 1/100    *)
(*   brightness_diff                       centre minus outer strips, grey *)
(*   center_density, edge_density          Canny densities, in 1/1000      *)
(*   peak, bl, br                          the gutter locator's curves     *)
(*   white_valley_depth, dark_dip          dips at the gutter, in 1/100    *)
(*   center_ed, overall_ed                 edge densities, in 1/1000       *)
(*   tier_raises                           something in the last tier      *)
(*                                         raises (caught by its except)   *)

\* Mutant: the aspect gate is skipped.
AspectGateOpen(h, w) == FALSE

\* detection.py 178-180: aspect_ratio = w / h; aspect_ratio < 1.05.
AspectGate(h, w) == 100 * w < 105 * h

\* detection.py 191-193: the ladder runs when end > start + 10.
LadderWindow(ws) == (ws * 95) \div 100 > (ws * 5) \div 100 + 10

\* Mutant: a ladder without its corroborated rung.
DecisionLadderTwoRungs(f) ==
    \/ f.valley_conf >= 55
    \/ f.shadow_conf >= 45

\* detection.py 220-225
DecisionLadder(f) ==
    \/ f.valley_conf >= 55
    \/ f.shadow_conf >= 45
    \/ (f.valley_conf >= 35 /\ f.edge_conf >= 25)

\* detection.py 228-230: columns of gray_small[:, cx - cw//2 : cx + cw//2].
CenterStripWidth(ws) ==
    LET center_width == ws \div 5
        center_x == ws \div 2
    IN  Min(ws, center_x + center_width \div 2) - (center_x - center_width \div 2)

\* detection.py 242-243
BrightCentre(f) == f.brightness_diff > 20

\* detection.py 254
EdgeGap(f) == f.edge_density > 0 /\ 10 * f.center_density < 6 * f.edge_density

\* Mutant: the shadow dip counts wherever the gutter lies.
GutterTierAnyPosition(h, w, f) ==
    IF f.tier_raises THEN FALSE
    ELSE \/ /\ f.white_valley_depth >= 12
            /\ f.overall_ed > 0
            /\ 10 * f.center_ed < 8 * f.overall_ed
         \/ f.white_valley_depth >= 20
         \/ f.dark_dip >= 6

\* detection.py 261-307: the gutter-locator tier; any exception gives False.
GutterTier(h, w, f) ==
    IF f.tier_raises THEN FALSE
    ELSE LET gutter_x == FindGutterPosition(h, w, f.peak, f.bl, f.br)
         IN  \/ /\ f.white_valley_depth >= 12
                /\ f.overall_ed > 0
                /\ 10 * f.center_ed < 8 * f.overall_ed
             \/ f.white_valley_depth >= 20
             \/ /\ 15 * Max(1, w) <= 100 * gutter_x
                /\ 100 * gutter_x <= 85 * Max(1, w)
                /\ f.dark_dip >= 6

DetectFacingPages(h, w, f) ==
    IF AspectGate(h, w) THEN Returned(FALSE)
    ELSE LET an == ResizeForAnalysis(h, w)
         IN  IF LadderWindow(an.w) /\ DecisionLadder(f) THEN Returned(TRUE)
             \* np.max of the column means of an empty centre strip
             ELSE IF CenterStripWidth(an.w) = 0 THEN Raised("ValueError")
             ELSE IF BrightCentre(f) THEN Returned(TRUE)
             ELSE IF EdgeGap(f) THEN Returned(TRUE)
             ELSE Returned(GutterTier(h, w, f))

\* What is measured on an all-white image (every pixel 255): no ink, no
\* Canny edge, flat curves.  A flat curve has no saddle valley (detection.py
\* 151-152: confidence 0.0), norm_low of a flat curve is all zero (split.py
\* 169-170), so the score is the centre prior alone and peaks at the index
\* nearest the window centre; _band_edges of the all-zero ink curve returns
\* (idx, idx) (split.py 81-82).
WhiteFeatures(h, w) ==
    LET ws == ResizeForAnalysis(h, w).w
        region_w == SearchEnd(ws) - SearchStart(ws)
    IN  [valley_conf |-> 0, edge_conf |-> 0, shadow_conf |-> 0,
         brightness_diff |-> 0, center_density |-> 0, edge_density |-> 0,
         peak |-> IF WindowTooNarrow(ws) THEN 0 ELSE (region_w - 1) \div 2,
         bl |-> 0, br |-> 0,
         white_valley_depth |-> 0, dark_dip |-> 0,
         center_ed |-> 0, overall_ed |-> 0, tier_raises |-> FALSE]

\* Image sizes <<h, w>> on both sides of the aspect gate, below the ladder
\* window, below the centre strip, and above the analysis size.
FacingSizes ==
    {<<100, 100>>, <<100, 104>>, <<100, 105>>, <<20, 21>>, <<10, 11>>,
     <<4, 8>>, <<3001, 1500>>, <<1500, 3001>>}

\* Measurements on both sides of every threshold of the detector.
FacingFeatures(h, w) ==
    LET ws == ResizeForAnalysis(h, w).w
    IN  { [valley_conf |-> vc, edge_conf |-> ec, shadow_conf |-> sc,
           brightness_diff |-> bd,
           center_density |-> dens[1], edge_density |-> dens[2],
           peak |-> peak, bl |-> 0, br |-> br,
           white_valley_depth |-> wvd, dark_dip |-> dd,
           center_ed |-> ed[1], overall_ed |-> ed[2], tier_raises |-> tr] :
          vc \in {0, 35, 55}, ec \in {0, 25}, sc \in {0, 45}, bd \in {20, 21},
          dens \in {<<0, 0>>, <<5, 10>>, <<6, 10>>},
          peak \in GutterPeaks(ws),
          br \in IF WindowTooNarrow(ws) THEN {0} ELSE {0, MaxBand},
          wvd \in {0, 12, 20}, dd \in {5, 6},
          ed \in {<<0, 0>>, <<7, 10>>, <<8, 10>>}, tr \in BOOLEAN }

InitFacing ==
    /\ op = "detect_facing_pages"
    /\ \E size \in FacingSizes :
         \E f \in FacingFeatures(size[1], size[2]) :
           arg = [h |-> size[1], w |-> size[2], f |-> f]
    /\ ret = Pending
    /\ Globals

\* detection.py 262: the call of find_gutter_position that detect_facing_pages
\* makes when it reaches its last tier, as a record of the history; the tier
\* raises at or after that call when f.tier_raises.
GutterLocatorCalls(h, w, f) ==
    IF \/ AspectGate(h, w)
       \/ (LadderWindow(ResizeForAnalysis(h, w).w) /\ DecisionLadder(f))
       \/ CenterStripWidth(ResizeForAnalysis(h, w).w) = 0
       \/ BrightCentre(f)
       \/ EdgeGap(f)
    THEN {}
    ELSE {[op |-> "find_gutter_position",
           arg |-> [h |-> h, w |-> w, peak |-> f.peak, bl |-> f.bl, br |-> f.br],
           ret |-> IF f.tier_raises THEN Raised("Exception")
                   ELSE Returned(FindGutterPosition(h, w, f.peak, f.bl, f.br)),
           flag_before |-> pd_dewarp_available,
           flag_after |-> pd_dewarp_available]}

CallDetectFacingPages ==
    /\ op = "detect_facing_pages"
    /\ ret = Pending
    /\ ret' = DetectFacingPages(arg.h, arg.w, arg.f)
    /\ observed' = observed \cup GutterLocatorCalls(arg.h, arg.w, arg.f)
    /\ UNCHANGED <<op, arg, pd_dewarp_available, page_dewarp_installed>>

SpecFacing == InitFacing /\ [][CallDetectFacingPages]_vars

---------------------------------------------------------------------------
(* detection._detect_skew_hough, detection.detect_skew_angle and           *)
(* deskew_wrapper.deskew_page                                              *)
(*                                                                         *)
(* Angles are in 1/100 degree; an angle of a line is atan2(dy, dx) in      *)
(* image coordinates (y grows downwards).  Confidences are in 1/ConfUnit.  *)
(* s holds what is measured on the analysis image:                         *)
(*   contrast     np.std of the grey levels, in 1/10 grey level            *)
(*   est_raises   the estimator raises                                     *)
(*   count        number of retained Hough segments (|dx| >= 1 and         *)
(*                |angle| <= max_angle)                                    *)
(*   line_angle   their length-weighted mean angle                         *)
(*   angle_std    np.std of their angles                                   *)

Deg == 10 * 10

ConfUnit == 60 * 1000

\* detection.py 86-87: "to deskew we rotate in the opposite direction".
CorrectionFromLineAngle(line_angle) == -line_angle

\* detection.py 79-84: 0.7 * max(0, 1 - std/4) + 0.3 * min(1, count/15).
HoughConfidence(count, angle_std) ==
    LET consistency == Max(0, ConfUnit - (angle_std * ConfUnit) \div (4 * Deg))
        count_score == Min(ConfUnit, (count * ConfUnit) \div 15)
    IN  Min(ConfUnit, Max(0, (7 * consistency + 3 * count_score) \div 10))

\* detection._detect_skew_hough(gray_small, max_angle): (angle, confidence).
DetectSkewHough(hs, ws, s) ==
    IF hs < 10 \/ ws < 10 THEN [angle |-> 0, confidence |-> 0]
    ELSE IF s.count = 0 THEN [angle |-> 0, confidence |-> 0]
    ELSE [angle |-> CorrectionFromLineAngle(s.line_angle),
          confidence |-> HoughConfidence(s.count, s.angle_std)]

\* Mutant: the unconditional 10-degree limit is missing.
SkewGuardrailsNoLimit(angle, conf) ==
    IF conf < (40 * ConfUnit) \div 100 THEN 0
    ELSE IF Abs(angle) > 5 * Deg /\ conf < (70 * ConfUnit) \div 100 THEN 0
    ELSE angle

\* detection.py 340-347
SkewGuardrails(angle, conf) ==
    IF conf < (40 * ConfUnit) \div 100 THEN 0
    ELSE IF Abs(angle) > 5 * Deg /\ conf < (70 * ConfUnit) \div 100 THEN 0
    ELSE IF Abs(angle) > 10 * Deg THEN 0
    ELSE angle

\* detection.detect_skew_angle
DetectSkewAngle(h, w, s) ==
    LET an == ResizeForAnalysis(h, w)
    IN  IF s.contrast < 5 * 10 THEN Returned(0)
        ELSE IF s.est_raises THEN Returned(0)
        ELSE LET r == DetectSkewHough(an.h, an.w, s)
             IN  Returned(SkewGuardrails(r.angle, r.confidence))

\* deskew_wrapper.deskew_page(image, angle) acting on the angle of the text
\* lines: below 0.1 degree the image is returned as it is; otherwise
\* cv2.getRotationMatrix2D(center, angle, 1.0) and cv2.warpAffine turn the
\* content counter-clockwise by angle, which takes a line of image angle t
\* (atan2(dy, dx), y downwards) to image angle t - angle.
DeskewPage(tilt, angle) ==
    IF Abs(angle) < Deg \div 10 THEN tilt ELSE tilt - angle

\* The white image: zero contrast, no segment.
WhiteSkew ==
    [contrast |-> 0, est_raises |-> FALSE, count |-> 0,
     line_angle |-> 0, angle_std |-> 0]

---------------------------------------------------------------------------
(* Skew: detect_skew_angle alone, and followed by deskew_page as in        *)
(* PageProcessor.process.                                                  *)

\* Image sizes <<h, w>>: analysis image at and below the estimator's
\* 10-pixel minimum, with and without downscaling.
SkewSizes == {<<10, 10>>, <<100, 9>>, <<30000, 100>>, <<3001, 1500>>}

MaxSegments == 16

\* Text-line angles on both sides of 0.1, 0.5, 5, 10 and 15 degrees.
LineAngles ==
    LET pos == {0, 9, 10, 49, 50, 200, 5 * Deg, 5 * Deg + 1, 8 * Deg,
                10 * Deg, 10 * Deg + 1, 15 * Deg}
    IN  pos \cup {-a : a \in pos}

AngleStds == {0, Deg, 2 * Deg, 3 * Deg, 4 * Deg, 5 * Deg}

\* What can be measured: no segment has no angle; one segment has no spread.
SkewFeatures ==
    { s \in [contrast : {0, 49, 50, 600}, est_raises : BOOLEAN,
             count : 0 .. MaxSegments, line_angle : LineAngles,
             angle_std : AngleStds] :
        /\ s.count = 0 => (s.line_angle = 0 /\ s.angle_std = 0)
        /\ s.count = 1 => s.angle_std = 0 }

\* processor.py 185-206 for one page: the detected angle is passed to
\* deskew_page when its magnitude reaches min_skew_angle (default 0.5).
\* The text lines of the page have angle s.line_angle before the stage; the
\* result is the angle handed on and the angle of the text lines after it.
MinSkewAngle == Deg \div 2

ProcessDeskew(h, w, s) ==
    LET page_skew == DetectSkewAngle(h, w, s).value
        applied == Abs(page_skew) >= MinSkewAngle
    IN  [page_skew |-> page_skew,
         applied |-> applied,
         tilt_after |-> IF applied THEN DeskewPage(s.line_angle, page_skew)
                        ELSE s.line_angle]

InitSkew ==
    /\ op \in {"detect_skew_angle", "process"}
    /\ \E size \in SkewSizes, s \in SkewFeatures :
         arg = [h |-> size[1], w |-> size[2], s |-> s]
    /\ ret = Pending
    /\ Globals

CallDetectSkewAngle ==
    /\ op = "detect_skew_angle" /\ ret = Pending
    /\ ret' = DetectSkewAngle(arg.h, arg.w, arg.s)
    /\ UNCHANGED <<op, arg, pd_dewarp_available, page_dewarp_installed, observed>>

CallProcessDeskew ==
    /\ op = "process" /\ ret = Pending
    /\ ret' = Returned(ProcessDeskew(arg.h, arg.w, arg.s))
    /\ UNCHANGED <<op, arg, pd_dewarp_available, page_dewarp_installed, observed>>

NextSkew ==
    \/ CallDetectSkewAngle
    \/ CallProcessDeskew

SpecSkew == InitSkew /\ [][NextSkew]_vars

---------------------------------------------------------------------------
(* detection.detect_curvature                                              *)
(*                                                                         *)
(* lines: the candidate text lines (contours wider than 30% of the width   *)
(* and lower than 10% of the height), each given by the outcome of its     *)
(* fit: -1 for a contour of fewer than 10 points, else the curvature       *)
(* |coeffs[0]| * w in 1/10.                                                *)

RECURSIVE SumSeq(_)
SumSeq(q) == IF q = << >> THEN 0 ELSE Head(q) + SumSeq(Tail(q))

\* detection.py 391-410: the curvatures of the lines with at least 10 points.
FittedCurvatures(lines) == SelectSeq(lines, LAMBDA c : c >= 0)

\* detection.py 374: cv2.getStructuringElement(MORPH_RECT, (w // 20, 1)); a
\* zero-width kernel fails cv2's anchor assertion and raises cv2.error.
DilateKernelWidth(ws) == ws \div 20

\* detection.detect_curvature: the mean curvature, in 1/10.
DetectCurvature(h, w, lines) ==
    LET an == ResizeForAnalysis(h, w)
    IN  IF DilateKernelWidth(an.w) = 0 THEN Raised("cv2.error")
        ELSE IF Len(lines) < 3 THEN Returned(0)
        ELSE LET curvatures == FittedCurvatures(lines)
             IN  IF curvatures = << >> THEN Returned(0)
                 ELSE Returned(SumSeq(curvatures) \div Len(curvatures))

\* The white image: Otsu binarisation of a uniform image leaves no
\* foreground, hence no contour and no candidate line.
WhiteLines == << >>

---------------------------------------------------------------------------
(* Blank input: the four whole-page detectors on an all-white image of     *)
(* every size.                                                             *)

WholePageDetectors ==
    {"detect_content_bounds", "detect_facing_pages",
     "detect_skew_angle", "detect_curvature"}

InitBlank ==
    /\ op \in WholePageDetectors \cup {"find_gutter_position"}
    /\ \E w \in Dims, h \in Dims : arg = [w |-> w, h |-> h, white |-> TRUE]
    /\ ret = Pending
    /\ Globals

BlankContentBounds ==
    /\ op = "detect_content_bounds" /\ ret = Pending
    /\ ret' = Returned(DetectContentBounds(arg.h, arg.w, None))
    /\ UNCHANGED <<op, arg, pd_dewarp_available, page_dewarp_installed, observed>>

BlankFacingPages ==
    /\ op = "detect_facing_pages" /\ ret = Pending
    /\ ret' = DetectFacingPages(arg.h, arg.w, WhiteFeatures(arg.h, arg.w))
    /\ UNCHANGED <<op, arg, pd_dewarp_available, page_dewarp_installed, observed>>

BlankSkewAngle ==
    /\ op = "detect_skew_angle" /\ ret = Pending
    /\ ret' = DetectSkewAngle(arg.h, arg.w, WhiteSkew)
    /\ UNCHANGED <<op, arg, pd_dewarp_available, page_dewarp_installed, observed>>

BlankCurvature ==
    /\ op = "detect_curvature" /\ ret = Pending
    /\ ret' = DetectCurvature(arg.h, arg.w, WhiteLines)
    /\ UNCHANGED <<op, arg, pd_dewarp_available, page_dewarp_installed, observed>>

\* find_gutter_position on the white image: its curves are those of
\* WhiteFeatures.
BlankGutterPosition ==
    /\ op = "find_gutter_position" /\ ret = Pending
    /\ LET f == WhiteFeatures(arg.h, arg.w)
       IN  ret' = Returned(FindGutterPosition(arg.h, arg.w, f.peak, f.bl, f.br))
    /\ UNCHANGED <<op, arg, pd_dewarp_available, page_dewarp_installed, observed>>

NextBlank ==
    \/ BlankContentBounds
    \/ BlankFacingPages
    \/ BlankSkewAngle
    \/ BlankCurvature
    \/ BlankGutterPosition

SpecBlank == InitBlank /\ [][NextBlank]_vars

---------------------------------------------------------------------------
(* stages/deskew.py: detect_skew_hough, detect_skew_projection and         *)
(* detect_deskew                                                           *)
(*                                                                         *)
(* Angles of this stage are in 1/10000 degree (Tick), one decimal finer    *)
(* than the three decimals of the reported angle; the estimators'          *)
(* confidences are in 1/100 (Pct); the fused confidence is in              *)
(* 1/DeskewConfUnit so that its weights and its halving are exact.         *)
(* d holds the arguments and what is measured on the image:                *)
(*   w                      image width                                    *)
(*   min_angle, max_angle   the caller's thresholds                        *)
(*   count, h_angle, h_std  retained Hough segments, their length-weighted *)
(*                          mean angle and the spread of their angles      *)
(*   coarse, fine           index (0 .. 30) of the best coarse angle and   *)
(*                          offset (-10 .. 10 tenths of a degree) of the   *)
(*                          best fine angle                                *)
(*   best_score, median_score   projection variances                       *)

Tick == 10 * 1000

Pct == 10 * 10

DeskewConfUnit == 40 * Pct

\* stages/deskew.py 198-206: 0.7 * max(0, 1 - std/5) + 0.3 * min(1, count/20).
StageHoughConfidence(count, h_std) ==
    LET consistency_score == Max(0, Pct - (h_std * Pct) \div (5 * Tick))
        count_score == Min(Pct, (count * Pct) \div 20)
    IN  (7 * consistency_score + 3 * count_score) \div 10

\* stages/deskew.py detect_skew_hough: the angle of the lines, not negated.
StageSkewHough(d) ==
    IF d.w \div 30 = 0 THEN Raised("cv2.error")
    ELSE IF d.count = 0 THEN Returned([angle |-> 0, confidence |-> 0])
    ELSE Returned([angle |-> d.h_angle,
                   confidence |-> StageHoughConfidence(d.count, d.h_std)])

\* stages/deskew.py 245, 263: np.linspace(-max_angle, max_angle, 31)[coarse],
\* then np.linspace(best - 1, best + 1, 21), i.e. best + fine / 10.
ProjectionAngle(max_angle, coarse, fine) ==
    RoundSigned(max_angle * (coarse - 15), 15) + fine * (Tick \div 10)

\* stages/deskew.py 275-282
ProjectionConfidence(best_score, median_score) ==
    IF median_score = 0 THEN 0
    ELSE Max(0, Min(Pct, (2 * Pct * (best_score - median_score)) \div median_score))

\* stages/deskew.py detect_skew_projection: no score above 0 leaves the
\* initial best_angle = 0.0.
StageSkewProjection(d) ==
    [angle |-> IF d.best_score = 0 THEN 0
               ELSE ProjectionAngle(d.max_angle, d.coarse, d.fine),
     confidence |-> ProjectionConfidence(d.best_score, d.median_score)]

\* stages/deskew.py 74-75, 83: 0.55 and 0.45 are 11/20 and 9/20.
TotalWeight(hough, projection) ==
    11 * hough.confidence + 9 * projection.confidence

\* Mutant: the angles are averaged with the fixed weights alone.
FusedFixedWeights(hough, projection) ==
    LET total_weight == TotalWeight(hough, projection)
    IN  IF total_weight = 0 THEN [angle |-> 0, confidence |-> 0]
        ELSE [angle |-> RoundSigned(11 * hough.angle + 9 * projection.angle, 20),
              confidence |-> 2 * total_weight]

\* stages/deskew.py 85-94: angle and confidence before the clamp.
Fused(hough, projection) ==
    LET total_weight == TotalWeight(hough, projection)
    IN  IF total_weight = 0 THEN [angle |-> 0, confidence |-> 0]
        ELSE [angle |-> RoundSigned(hough.angle * 11 * hough.confidence
                                    + projection.angle * 9 * projection.confidence,
                                    total_weight),
              confidence |-> 2 * total_weight]

\* Mutant: the angle is limited without lowering the confidence.
ClampAngleKeepConfidence(f, max_angle) ==
    IF Abs(f.angle) > max_angle
    THEN [angle |-> Sign(f.angle) * max_angle, confidence |-> f.confidence]
    ELSE f

\* stages/deskew.py 97-99
ClampAngle(f, max_angle) ==
    IF Abs(f.angle) > max_angle
    THEN [angle |-> Sign(f.angle) * max_angle, confidence |-> f.confidence \div 2]
    ELSE f

\* round(final_angle, 3)
Round3(angle) == RoundSigned(angle, 10) * 10

\* stages/deskew.py 110: min(1.0, final_confidence)
ReportedConfidence(confidence) == Min(DeskewConfUnit, confidence)

\* stages/deskew.py detect_deskew
DetectDeskew(d) ==
    LET hough_result == StageSkewHough(d)
    IN  IF hough_result.kind = "raise" THEN hough_result
        ELSE LET final == ClampAngle(Fused(hough_result.value, StageSkewProjection(d)),
                                     d.max_angle)
             IN  Returned([angle |-> Round3(final.angle),
                           confidence |-> ReportedConfidence(final.confidence),
                           needs_correction |-> Abs(final.angle) >= d.min_angle])

\* The fused angle and confidence of a call, before clamp and rounding.
FusedOf(d) == Fused(StageSkewHough(d).value, StageSkewProjection(d))

MaxAngles == {15 * Tick, Tick + 6}

MinAngles == {Tick \div 2, Tick}

HoughAngles ==
    LET pos == {0, 4996, 5004, 12345, Tick, 9 * Tick + 9999, 15 * Tick}
    IN  pos \cup {-a : a \in pos}

DeskewInputs ==
    { d \in [w : {29, 300}, min_angle : MinAngles, max_angle : MaxAngles,
             count : {0, 1, 10, 20, 21}, h_angle : HoughAngles,
             h_std : {0, 3 * Tick, 5 * Tick},
             coarse : {0, 8, 15, 30}, fine : {-10, 0, 5, 10},
             score : {<<0, 0>>, <<3, 0>>, <<4, 4>>, <<5, 4>>, <<9, 4>>}] :
        /\ Abs(d.h_angle) <= d.max_angle
        /\ d.count = 0 => (d.h_angle = 0 /\ d.h_std = 0)
        /\ d.count = 1 => d.h_std = 0
        /\ d.score[1] = 0 => (d.coarse = 15 /\ d.fine = 0)
        /\ d.w = 29 => (d.count = 0 /\ d.score[1] = 0 /\ d.min_angle = Tick) }

WithScores(d) ==
    [w |-> d.w, min_angle |-> d.min_angle, max_angle |-> d.max_angle,
     count |-> d.count, h_angle |-> d.h_angle, h_std |-> d.h_std,
     coarse |-> d.coarse, fine |-> d.fine,
     best_score |-> d.score[1], median_score |-> d.score[2]]

InitDeskew ==
    /\ op = "detect_deskew"
    /\ \E d \in DeskewInputs : arg = WithScores(d)
    /\ ret = Pending
    /\ Globals

CallDetectDeskew ==
    /\ op = "detect_deskew" /\ ret = Pending
    /\ ret' = DetectDeskew(arg)
    /\ UNCHANGED <<op, arg, pd_dewarp_available, page_dewarp_installed, observed>>

SpecDeskew == InitDeskew /\ [][CallDetectDeskew]_vars

---------------------------------------------------------------------------
(* stages/rotation.py: detect_rotation and its three sub-signals           *)
(*                                                                         *)
(* Sub-signal scores are in 1/1000 (Milli); the combined candidate scores  *)
(* and the reported confidence are in 1/RotationConfUnit.                  *)
(* r holds the image size and what is measured on the image:               *)
(*   h_count, v_count   pixels of horizontal / vertical structures         *)
(*   ink                <<top, bottom, left, right>> np.sum of the         *)
(*                      binarised halves over h * w // 2, in grey levels   *)
(*   edges              <<top, bottom, left, right>> Canny densities of    *)
(*                      the margins, in 1/10 grey level                    *)

Milli == 10 * 100

RotationConfUnit == 10 * Milli

Rotations == {0, 90, 180, 270}

NoScores == [c \in Rotations |-> 0]

\* x * num / den for a score x.
Scale(x, num, den) == (x * num) \div den

\* stages/rotation.py detect_text_orientation
DetectTextOrientation(r) ==
    LET total == r.h_count + r.v_count
        h_ratio == (r.h_count * Milli) \div total
        v_ratio == (r.v_count * Milli) \div total
    IN  IF total = 0 THEN NoScores
        ELSE IF h_ratio > v_ratio
        THEN IF r.ink[1] >= r.ink[2]
             THEN [NoScores EXCEPT ![0] = h_ratio, ![180] = Scale(h_ratio, 3, 10)]
             ELSE [NoScores EXCEPT ![180] = Scale(h_ratio, 7, 10),
                                   ![0] = Scale(h_ratio, 5, 10)]
        ELSE IF r.ink[3] >= r.ink[4]
             THEN [NoScores EXCEPT ![270] = v_ratio, ![90] = Scale(v_ratio, 3, 10)]
             ELSE [NoScores EXCEPT ![90] = v_ratio, ![270] = Scale(v_ratio, 3, 10)]

\* stages/rotation.py 200-204 and 254-258: division by max(..., 1).
Normalised(q, one) ==
    LET max_q == Max(Max(Max(q[1], q[2]), Max(q[3], q[4])), one)
    IN  [i \in 1 .. 4 |-> (q[i] * Milli) \div max_q]

\* stages/rotation.py detect_edge_orientation
DetectEdgeOrientation(r) ==
    LET n == Normalised(r.edges, 10)
        h_strength == (n[1] + n[2]) \div 2
        v_strength == (n[3] + n[4]) \div 2
    IN  IF h_strength > v_strength
        THEN IF n[1] >= n[2]
             THEN [NoScores EXCEPT ![0] = h_strength,
                                   ![180] = Scale(h_strength, 4, 10)]
             ELSE [NoScores EXCEPT ![180] = Scale(h_strength, 7, 10),
                                   ![0] = Scale(h_strength, 5, 10)]
        ELSE IF n[3] >= n[4]
             THEN [NoScores EXCEPT ![270] = v_strength,
                                   ![90] = Scale(v_strength, 4, 10)]
             ELSE [NoScores EXCEPT ![90] = Scale(v_strength, 7, 10),
                                   ![270] = Scale(v_strength, 5, 10)]

\* stages/rotation.py detect_content_orientation
DetectContentOrientation(r) ==
    LET n == Normalised(r.ink, 1)
        h_diff == Abs(n[1] - n[2])
        v_diff == Abs(n[3] - n[4])
    IN  IF h_diff >= v_diff
        THEN IF n[1] >= n[2] THEN [NoScores EXCEPT ![0] = h_diff]
             ELSE [NoScores EXCEPT ![180] = h_diff]
        ELSE IF n[3] >= n[4] THEN [NoScores EXCEPT ![270] = v_diff]
             ELSE [NoScores EXCEPT ![90] = v_diff]

\* stages/rotation.py 60-77: weights text 0.5, edge 0.3, content 0.2.
Candidates(r) ==
    LET text_result == DetectTextOrientation(r)
        edge_result == DetectEdgeOrientation(r)
        content_result == DetectContentOrientation(r)
    IN  [c \in Rotations |->
           5 * text_result[c] + 3 * edge_result[c] + 2 * content_result[c]]

\* Mutant: among equal scores the last key wins.
BestRotationLast(candidates) ==
    CHOOSE c \in Rotations :
        /\ \A o \in Rotations : candidates[o] <= candidates[c]
        /\ \A o \in Rotations : candidates[o] = candidates[c] => c >= o

\* max(candidates, key=candidates.get): the first key, in the order 0, 90,
\* 180, 270, whose score is the largest.
BestRotation(candidates) ==
    CHOOSE c \in Rotations :
        /\ \A o \in Rotations : candidates[o] <= candidates[c]
        /\ \A o \in Rotations : candidates[o] = candidates[c] => c <= o

\* stages/rotation.py detect_rotation; the kernels (w // 20, 1) and
\* (1, h // 20) of the text sub-signal need both sides to be at least 20.
DetectRotation(r) ==
    IF r.w \div 20 = 0 \/ r.h \div 20 = 0 THEN Raised("cv2.error")
    ELSE LET candidates == Candidates(r)
             best_rotation == BestRotation(candidates)
         IN  Returned([rotation |-> best_rotation,
                       confidence |-> Min(RotationConfUnit,
                                          candidates[best_rotation])])

\* Halves of one binarised image: top + bottom = left + right.
InkHalves ==
    { q \in [1 .. 4 -> {0, 100, 200, 255}] : q[1] + q[2] = q[3] + q[4] }

EdgeMargins == [1 .. 4 -> {0, 5, 2550}]

RotationInputs ==
    { r \in [w : {19, 100}, h : {19, 100},
             h_count : 0 .. 2, v_count : 0 .. 2,
             ink : InkHalves, edges : EdgeMargins] :
        /\ (r.ink = <<0, 0, 0, 0>>) => (r.h_count = 0 /\ r.v_count = 0)
        /\ (r.w = 19 \/ r.h = 19) =>
             (r.h_count = 0 /\ r.v_count = 0 /\ r.ink = <<0, 0, 0, 0>>
              /\ r.edges = <<0, 0, 0, 0>>) }

---------------------------------------------------------------------------
(* stages/split.py: detect_split and its sub-detectors                     *)
(*                                                                         *)
(* Sub-detector confidences are in 1/100 (Pct), positions in 1/1000 of the *)
(* width (Milli), the combined confidence in 1/SplitConfUnit.              *)
(* x holds the arguments and what is measured on the image:                *)
(*   w, h              image size                                          *)
(*   min_confidence    the caller's threshold, in 1/SplitConfUnit          *)
(*   flat              the smoothed projection has maximum or mean 0       *)
(*   valley_depth      (mean - min) / mean of the smoothed projection      *)
(*   min_idx           index of its minimum, as a step of 0 .. PosSteps    *)
(*   darkness          min window mean over overall mean, -1 when the      *)
(*                     overall mean is 0                                   *)
(*   min_pos           centre of the darkest window, as a step             *)
(*   bounds            both halves have content                            *)
(*   y_diff            distance of the halves' vertical centres over h     *)
(*   height_ratio, width_ratio   smaller over larger content extent        *)

SplitConfUnit == 10 * Pct

\* stages/split.py 88-89: 1.15 < w / h < 1.8
AspectConfidence(h, w) ==
    IF 115 * h < 100 * w /\ 10 * w < 18 * h THEN 30 ELSE 0

\* stages/split.py detect_vertical_valley
DetectVerticalValley(x) ==
    LET center_start == (x.w * 2) \div 10
        center_end == (x.w * 8) \div 10
        n == center_end - center_start
    IN  IF n = 0 \/ x.flat THEN [confidence |-> 0, position |-> Milli \div 2]
        ELSE [confidence |-> Min(Pct, x.valley_depth * 2),
              position |-> ((center_start + Sample(0, n - 1, x.min_idx)) * Milli)
                             \div x.w]

\* The widths up to 1000 for which w * 0.35, computed in binary floating
\* point, falls just below the integer w * 35 / 100.
ShortOf35Pct == {180, 340, 360, 660, 680, 700, 720}

\* stages/split.py 241: int(w * 0.35)
ShadowStart(w) ==
    IF w \in ShortOf35Pct THEN (w * 35) \div 100 - 1 ELSE (w * 35) \div 100

\* stages/split.py detect_gutter_shadow
DetectGutterShadow(x) ==
    LET center_start == ShadowStart(x.w)
        center_end == (x.w * 65) \div 100
        n == center_end - center_start
        window_size == Max(3, n \div 20)
    IN  IF n = 0 \/ x.darkness < 0 THEN [confidence |-> 0, position |-> Milli \div 2]
        ELSE IF n - window_size <= 0
        \* no window: min_avg stays infinite, min_pos stays n // 2
        THEN [confidence |-> 0,
              position |-> ((center_start + n \div 2) * Milli) \div x.w]
        ELSE [confidence |-> Min(Pct, (Max(0, Pct - x.darkness) * 15) \div 10),
              position |-> ((center_start
                              + Sample(0, n - window_size - 1, x.min_pos)
                              + window_size \div 2) * Milli) \div x.w]

\* stages/split.py detect_content_symmetry
DetectContentSymmetry(x) ==
    IF ~x.bounds THEN [confidence |-> 0, position |-> Milli \div 2]
    ELSE LET alignment_score == Max(0, Pct - x.y_diff * 10)
         IN  [confidence |-> (alignment_score * 4 + x.height_ratio * 3
                               + x.width_ratio * 3) \div 10,
              position |-> Milli \div 2]

\* stages/split.py 104-115: name, confidence, position, weight (in 1/10).
SplitMethods(x) ==
    LET valley_result == DetectVerticalValley(x)
        gutter_result == DetectGutterShadow(x)
        symmetry_result == DetectContentSymmetry(x)
    IN  << [confidence |-> AspectConfidence(x.h, x.w),
            position |-> Milli \div 2, weight |-> 1],
           [confidence |-> valley_result.confidence,
            position |-> valley_result.position, weight |-> 4],
           [confidence |-> gutter_result.confidence,
            position |-> gutter_result.position, weight |-> 3],
           [confidence |-> symmetry_result.confidence,
            position |-> symmetry_result.position, weight |-> 2] >>

\* Mutant: every method votes, whatever its confidence.
WeightedPositionAllVote(methods) ==
    LET total_weight == SumSeq([i \in DOMAIN methods |->
                                  methods[i].confidence * methods[i].weight])
    IN  IF total_weight = 0 THEN Milli \div 2
        ELSE SumSeq([i \in DOMAIN methods |->
                       methods[i].position * methods[i].confidence
                         * methods[i].weight])
               \div total_weight

\* stages/split.py 120-132: the methods with confidence > 0.3 vote.
WeightedPosition(methods) ==
    LET votes == SelectSeq(methods, LAMBDA m : m.confidence > 30)
        total_weight == SumSeq([i \in DOMAIN votes |->
                                  votes[i].confidence * votes[i].weight])
    IN  IF votes = << >> \/ total_weight = 0 THEN Milli \div 2
        ELSE SumSeq([i \in DOMAIN votes |->
                       votes[i].position * votes[i].confidence * votes[i].weight])
               \div total_weight

\* stages/split.py detect_split
DetectSplit(x) ==
    LET methods == SplitMethods(x)
        total_confidence == SumSeq([i \in DOMAIN methods |->
                                      methods[i].confidence * methods[i].weight])
        should_split == total_confidence >= x.min_confidence
    IN  Returned([should_split |-> should_split,
                  split_type |-> IF should_split THEN "vertical" ELSE "none",
                  position |-> WeightedPosition(methods),
                  confidence |-> Min(SplitConfUnit, total_confidence)])

SplitInputs ==
    { x \in [w : {1, 150, 360}, h : {100}, min_confidence : {600},
             flat : BOOLEAN, valley_depth : {0, 15, 16, 50, 100},
             min_idx : {0, PosSteps},
             darkness : {-1, 0, 50, 80, 110}, min_pos : {0, PosSteps},
             bounds : BOOLEAN, y_diff : {0, 5, 20},
             height_ratio : {0, 100}, width_ratio : {50, 100}] :
        /\ x.flat => (x.valley_depth = 0 /\ x.min_idx = 0)
        /\ x.darkness < 0 => x.min_pos = 0
        /\ ~x.bounds => (x.y_diff = 0 /\ x.height_ratio = 0 /\ x.width_ratio = 50)
        /\ x.w = 1 => (x.flat /\ x.darkness < 0 /\ ~x.bounds) }

---------------------------------------------------------------------------
(* stages/dewarp.py: detect_curvature_lines and detect_dewarp              *)
(*                                                                         *)
(* Curvatures are in 1/10, score and confidence in 1/100 (Pct).            *)
(* y holds the image width, min_curvature and the candidate text lines,    *)
(* each given by the outcome of its fit as in detection.detect_curvature.  *)

\* Mutant: the confidence grows with the number of lines without limit.
LineCountConfidenceRaw(n) == (n * Pct) \div 10

\* stages/dewarp.py 170: min(1.0, len(curvatures) / 10)
LineCountConfidence(n) == Min(Pct, (n * Pct) \div 10)

\* stages/dewarp.py 167: min(1.0, avg_curvature / 10)
CurvatureScore(avg_curvature) == Min(Pct, avg_curvature)

NoCurvature == [score |-> 0, confidence |-> 0]

\* stages/dewarp.py detect_curvature_lines
DetectCurvatureLines(w, lines) ==
    IF w \div 20 = 0 THEN Raised("cv2.error")
    ELSE IF Len(lines) < 3 THEN Returned(NoCurvature)
    ELSE LET curvatures == FittedCurvatures(lines)
         IN  IF curvatures = << >> THEN Returned(NoCurvature)
             ELSE Returned([score |-> CurvatureScore(SumSeq(curvatures)
                                                      \div Len(curvatures)),
                            confidence |-> LineCountConfidence(Len(curvatures))])

\* Mutant: the stage consults the flag that dewarp.py caches at its first
\* call.
PageDewarpAvailableCached == pd_dewarp_available = "True"

\* stages/dewarp.py 21-25: PAGE_DEWARP_AVAILABLE, set once when the module
\* is imported.
PageDewarpAvailable == page_dewarp_installed

\* stages/dewarp.py detect_dewarp
DetectDewarp(y) ==
    LET curvature_result == DetectCurvatureLines(y.w, y.lines)
    IN  IF curvature_result.kind = "raise" THEN curvature_result
        ELSE Returned([needs_dewarp |->
                         /\ curvature_result.value.score >= y.min_curvature
                         /\ PageDewarpAvailable,
                       curvature_score |-> curvature_result.value.score,
                       confidence |-> curvature_result.value.confidence,
                       tool_available |-> PageDewarpAvailable])

MaxLines == 11

LineFits == {-1, 0, 30, 200}

RECURSIVE LineSeqs(_)
LineSeqs(n) ==
    IF n = 0 THEN {<< >>}
    ELSE LET shorter == LineSeqs(n - 1)
         IN  shorter \cup { Append(q, c) : q \in { s \in shorter : Len(s) = n - 1 },
                                           c \in LineFits }

\* Up to three lines of every kind, and MaxLines equal lines.
DewarpLines ==
    LineSeqs(3) \cup { [i \in 1 .. MaxLines |-> c] : c \in LineFits }

DewarpInputs ==
    { y \in [w : {19, 400}, min_curvature : {10}, lines : DewarpLines] :
        y.w = 19 => y.lines = << >> }

---------------------------------------------------------------------------
(* The four stage detectors, each on every input of its own.               *)

InitStages ==
    /\ \/ op = "detect_rotation" /\ arg \in RotationInputs
       \/ op = "detect_deskew" /\ \E d \in DeskewInputs : arg = WithScores(d)
       \/ op = "detect_split" /\ arg \in SplitInputs
       \/ op = "detect_dewarp" /\ arg \in DewarpInputs
    /\ ret = Pending
    /\ Globals

CallDetectRotation ==
    /\ op = "detect_rotation" /\ ret = Pending
    /\ ret' = DetectRotation(arg)
    /\ UNCHANGED <<op, arg, pd_dewarp_available, page_dewarp_installed, observed>>

CallDetectSplit ==
    /\ op = "detect_split" /\ ret = Pending
    /\ ret' = DetectSplit(arg)
    /\ UNCHANGED <<op, arg, pd_dewarp_available, page_dewarp_installed, observed>>

CallDetectDewarp ==
    /\ op = "detect_dewarp" /\ ret = Pending
    /\ ret' = DetectDewarp(arg)
    /\ UNCHANGED <<op, arg, pd_dewarp_available, page_dewarp_installed, observed>>

NextStages ==
    \/ CallDetectRotation
    \/ CallDetectDeskew
    \/ CallDetectSplit
    \/ CallDetectDewarp

SpecStages == InitStages /\ [][NextStages]_vars

---------------------------------------------------------------------------
(* Sequences of calls in one process: the detectors in any order, with     *)
(* dewarp.dewarp_page, the one function that writes module-level state,    *)
(* in between.  observed keeps, of every detector call, the call, its      *)
(* outcome and _pd_dewarp_available before and after it.                   *)

MaxCalls == 3

\* dewarp.py _load_page_dewarp: the flag after the call.
LoadPageDewarp(flag, installed) ==
    IF flag # "None" THEN flag
    ELSE IF installed THEN "True" ELSE "False"

\* dewarp.py dewarp_page: the original image when page_dewarp is missing or
\* gives no output file, else the image it wrote.
DewarpPageOutcomes(flag) ==
    IF flag = "True" THEN {Returned("original"), Returned("dewarped")}
    ELSE {Returned("original")}

\* Buffers for the detectors.
SpreadFeatures == [WhiteFeatures(100, 150) EXCEPT !.valley_conf = 55]

TiltedSkew ==
    [contrast |-> 600, est_raises |-> FALSE, count |-> MaxSegments,
     line_angle |-> 2 * Deg, angle_std |-> 0]

CurvedLines == <<30, 30, 30>>

CallArgs(d) ==
    CASE d = "detect_facing_pages" ->
           {[h |-> 100, w |-> 150, f |-> WhiteFeatures(100, 150)],
            [h |-> 100, w |-> 150, f |-> SpreadFeatures]}
      [] d = "detect_skew_angle" ->
           {[h |-> 100, w |-> 150, s |-> TiltedSkew]}
      [] d = "detect_curvature" ->
           {[h |-> 100, w |-> 150, lines |-> CurvedLines]}
      [] d = "detect_content_bounds" ->
           {[h |-> 100, w |-> 150, fg |-> None]}
      [] d = "find_gutter_position" ->
           {[h |-> 100, w |-> 150, peak |-> 50, bl |-> 0, br |-> 0]}
      [] d = "detect_rotation" ->
           {[w |-> 100, h |-> 100, h_count |-> 2, v_count |-> 1,
             ink |-> <<255, 0, 255, 0>>, edges |-> <<0, 0, 0, 0>>]}
      [] d = "detect_deskew" ->
           {[w |-> 300, min_angle |-> Tick \div 2, max_angle |-> 15 * Tick,
             count |-> 20, h_angle |-> 12345, h_std |-> 0,
             coarse |-> 15, fine |-> 0, best_score |-> 0, median_score |-> 0]}
      [] d = "detect_split" ->
           {[w |-> 150, h |-> 100, min_confidence |-> 600, flat |-> FALSE,
             valley_depth |-> 50, min_idx |-> 0, darkness |-> 50, min_pos |-> 0,
             bounds |-> FALSE, y_diff |-> 0, height_ratio |-> 0,
             width_ratio |-> 50]}
      [] d = "detect_dewarp" ->
           {[w |-> 400, min_curvature |-> 10, lines |-> << >>],
            [w |-> 400, min_curvature |-> 10, lines |-> CurvedLines]}

CallResult(d, a) ==
    CASE d = "detect_facing_pages" -> DetectFacingPages(a.h, a.w, a.f)
      [] d = "detect_skew_angle" -> DetectSkewAngle(a.h, a.w, a.s)
      [] d = "detect_curvature" -> DetectCurvature(a.h, a.w, a.lines)
      [] d = "detect_content_bounds" ->
           Returned(DetectContentBounds(a.h, a.w, a.fg))
      [] d = "find_gutter_position" ->
           Returned(FindGutterPosition(a.h, a.w, a.peak, a.bl, a.br))
      [] d = "detect_rotation" -> DetectRotation(a)
      [] d = "detect_deskew" -> DetectDeskew(a)
      [] d = "detect_split" -> DetectSplit(a)
      [] d = "detect_dewarp" -> DetectDewarp(a)

\* One call of detector d with buffer a: no detector assigns a module-level
\* name.
Detect(d, a) ==
    /\ Cardinality(observed) < MaxCalls
    /\ op' = d
    /\ arg' = a
    /\ ret' = CallResult(d, a)
    /\ UNCHANGED <<pd_dewarp_available, page_dewarp_installed>>
    /\ observed' = observed \cup
                     {[op |-> d, arg |-> a, ret |-> ret',
                       flag_before |-> pd_dewarp_available,
                       flag_after |-> pd_dewarp_available']}

SeqFacingPages ==
    \E a \in CallArgs("detect_facing_pages") : Detect("detect_facing_pages", a)

SeqSkewAngle ==
    \E a \in CallArgs("detect_skew_angle") : Detect("detect_skew_angle", a)

SeqCurvature ==
    \E a \in CallArgs("detect_curvature") : Detect("detect_curvature", a)

SeqContentBounds ==
    \E a \in CallArgs("detect_content_bounds") : Detect("detect_content_bounds", a)

SeqGutterPosition ==
    \E a \in CallArgs("find_gutter_position") : Detect("find_gutter_position", a)

SeqRotation ==
    \E a \in CallArgs("detect_rotation") : Detect("detect_rotation", a)

SeqDeskew ==
    \E a \in CallArgs("detect_deskew") : Detect("detect_deskew", a)

SeqSplit ==
    \E a \in CallArgs("detect_split") : Detect("detect_split", a)

SeqDewarp ==
    \E a \in CallArgs("detect_dewarp") : Detect("detect_dewarp", a)

SeqDewarpPage ==
    /\ op' = "dewarp_page"
    /\ arg' = None
    /\ pd_dewarp_available' = LoadPageDewarp(pd_dewarp_available,
                                              page_dewarp_installed)
    /\ ret' \in DewarpPageOutcomes(pd_dewarp_available')
    /\ UNCHANGED <<page_dewarp_installed, observed>>

InitCalls ==
    /\ op = "none"
    /\ arg = None
    /\ ret = Returned(None)
    /\ Globals

NextCalls ==
    \/ SeqFacingPages
    \/ SeqSkewAngle
    \/ SeqCurvature
    \/ SeqContentBounds
    \/ SeqGutterPosition
    \/ SeqRotation
    \/ SeqDeskew
    \/ SeqSplit
    \/ SeqDewarp
    \/ SeqDewarpPage

SpecCalls == InitCalls /\ [][NextCalls]_vars

---------------------------------------------------------------------------
(* detection._best_saddle_valley (124-155) on a curve of non-negative      *)
(* values.  Indices are those of the code (from 0); the confidence is in   *)
(* 1/1000, the quotient rounded to that resolution (the 1e-9 added to the  *)
(* divisor is far below it).                                               *)

MaxCurve == 5

\* max of curve[lo .. hi] (indices from 0), 0.0 when the range is empty as
\* in the concatenation with [0.0].
PeakOver(curve, lo, hi) ==
    IF lo > hi THEN 0
    ELSE LET vals == { curve[k + 1] : k \in lo .. hi }
         IN  CHOOSE m \in vals : \A v \in vals : v <= m

\* Mutant: the padding is not reduced on a short curve.
SaddlePadFixed(n) == Max(5, n \div 20)

\* detection.py 133-135
SaddlePad(n) ==
    LET pad == Max(5, n \div 20)
    IN  IF n <= pad * 2 + 1 THEN 1 ELSE pad

BestSaddleValley(curve) ==
    LET n == Len(curve)
        pad == SaddlePad(n)
        min_peak == [i \in 0 .. n - 1 |->
                       Min(PeakOver(curve, 0, i - 1), PeakOver(curve, i + 1, n - 1))]
        score == [i \in 0 .. n - 1 |-> min_peak[i] - curve[i + 1]]
        \* the indices whose score is not set to -inf
        finite == { i \in 0 .. n - 1 : pad <= i /\ i < n - pad }
        centre == [index |-> n \div 2, confidence |-> 0]
    IN  IF n < 3 THEN centre
        ELSE IF finite = {} THEN centre
        ELSE LET idx == CHOOSE i \in finite :
                            \A j \in finite :
                                score[i] > score[j] \/ (score[i] = score[j] /\ i <= j)
             IN  IF score[idx] <= 0 \/ min_peak[idx] <= 0 THEN centre
                 ELSE [index |-> idx,
                       confidence |->
                           Min(Milli, Max(0, RoundHalfEven(score[idx] * Milli,
                                                           min_peak[idx])))]

RECURSIVE CurvesOver(_, _)
CurvesOver(values, n) ==
    IF n = 0 THEN {<< >>}
    ELSE { Append(q, v) : q \in CurvesOver(values, n - 1), v \in values }

\* A level curve of n values with one dip at index p.
DipCurve(n, p) == [i \in 1 .. n |-> IF i = p + 1 THEN 1 ELSE 3]

\* Every curve of up to MaxCurve values over three levels, every two-level
\* curve of 11, 12 and 13 values (around the length where the padding
\* changes), and curves of 120 values, where the padding is 6.
SaddleCurves ==
    UNION { CurvesOver({0, 1, 2}, n) : n \in 0 .. MaxCurve }
    \cup UNION { CurvesOver({1, 3}, n) : n \in {11, 12, 13} }
    \cup { DipCurve(120, p) : p \in {4, 5, 6, 60, 113, 114} }

InitSaddle ==
    /\ op = "_best_saddle_valley"
    /\ arg \in SaddleCurves
    /\ ret = Pending
    /\ Globals

CallBestSaddleValley ==
    /\ op = "_best_saddle_valley" /\ ret = Pending
    /\ ret' = Returned(BestSaddleValley(arg))
    /\ UNCHANGED <<op, arg, pd_dewarp_available, page_dewarp_installed, observed>>

SpecSaddle == InitSaddle /\ [][CallBestSaddleValley]_vars

---------------------------------------------------------------------------
(* _band_edges of split.py on a curve of finite values: the contiguous run *)
(* of low values around idx. Values are integers; the comparison with      *)
(* thresh = min_v + (mean_v - min_v) * 0.35 is made exactly, multiplied    *)
(* through by 20 * n (no curve of the bounded family lies exactly on the   *)
(* threshold, so the rounding of the floating-point product plays no       *)
(* part).                                                                  *)

MaxBandCurve == 4

BandValues == {0 - 2, 0, 1, 3}

\* min_v of a different function: the least value of the whole curve.
BandLowOfCurve(curve, idx) ==
    CHOOSE m \in { curve[k] : k \in 1 .. Len(curve) } :
        \A k \in 1 .. Len(curve) : m <= curve[k]

\* min_v = float(v[idx]): the value at the clamped index.
BandLow(curve, idx) == curve[idx + 1]

\* mask[k] = v[k] <= thresh, for 0 <= k < n.
BandMask(curve, idx, k) ==
    LET n == Len(curve)
        min_v == BandLow(curve, idx)
    IN  20 * n * curve[k + 1] <= 20 * n * min_v + 7 * (SumSeq(curve) - n * min_v)

\* The (left, right) pair _band_edges returns.
CurveBandEdges(curve, idx0) ==
    LET n == Len(curve)
        idx == Max(0, Min(n - 1, idx0))
    IN  IF n = 0 THEN [left |-> 0, right |-> 0]
        ELSE IF SumSeq(curve) <= 0 \/ SumSeq(curve) <= n * BandLow(curve, idx)
        THEN [left |-> idx, right |-> idx]
        ELSE IF ~BandMask(curve, idx, idx)
        THEN [left |-> idx, right |-> idx]
        ELSE LET left == CHOOSE l \in 0 .. idx :
                     /\ \A k \in l .. idx - 1 : BandMask(curve, idx, k)
                     /\ (l = 0 \/ ~BandMask(curve, idx, l - 1))
                 right == CHOOSE r \in idx .. n - 1 :
                     /\ \A k \in idx + 1 .. r : BandMask(curve, idx, k)
                     /\ (r = n - 1 \/ ~BandMask(curve, idx, r + 1))
             IN  [left |-> left, right |-> right]

BandCurves == UNION { CurvesOver(BandValues, n) : n \in 0 .. MaxBandCurve }

InitBand ==
    /\ op = "_band_edges"
    /\ arg \in { [curve |-> c, idx |-> i] :
                   c \in BandCurves, i \in (0 - 1) .. MaxBandCurve }
    /\ ret = Pending
    /\ Globals

CallBandEdges ==
    /\ op = "_band_edges" /\ ret = Pending
    /\ ret' = Returned(CurveBandEdges(arg.curve, arg.idx))
    /\ UNCHANGED <<op, arg, pd_dewarp_available, page_dewarp_installed, observed>>

SpecBand == InitBand /\ [][CallBandEdges]_vars

---------------------------------------------------------------------------
(* The two line-based estimators on the segments cv2.HoughLinesP returns:  *)
(* detection._detect_skew_hough (47-87) and stages/deskew.py               *)
(* detect_skew_hough (166-213).  A segment is its dx in pixels, its angle  *)
(* atan2(dy, dx) in 1/100 degree and its length in pixels; std is np.std   *)
(* of the retained angles in 1/100 degree.                                 *)

MaxHoughLines == 3

\* |dx| >= 1 and |angle| <= max_angle
RetainedSegments(segments, max_angle) ==
    SelectSeq(segments, LAMBDA g : Abs(g.dx) >= 1 /\ Abs(g.angle) <= max_angle)

RECURSIVE InsertSorted(_, _)
InsertSorted(sorted, x) ==
    IF sorted = << >> THEN <<x>>
    ELSE IF x <= Head(sorted) THEN <<x>> \o sorted
    ELSE <<Head(sorted)>> \o InsertSorted(Tail(sorted), x)

RECURSIVE Sorted(_)
Sorted(s) == IF s = << >> THEN << >> ELSE InsertSorted(Sorted(Tail(s)), Head(s))

\* np.median
Median(s) ==
    LET q == Sorted(s)
        n == Len(q)
    IN  IF n % 2 = 1 THEN q[(n + 1) \div 2]
        ELSE RoundSigned(q[n \div 2] + q[n \div 2 + 1], 2)

\* detection.py 70-74, stages/deskew.py 192-197: the mean of the angles
\* weighted by length, the median when the lengths sum to zero.
LengthWeightedAngle(kept) ==
    LET total_length == SumSeq([i \in DOMAIN kept |-> kept[i].length])
    IN  IF total_length <= 0 THEN Median([i \in DOMAIN kept |-> kept[i].angle])
        ELSE RoundSigned(SumSeq([i \in DOMAIN kept |-> kept[i].angle * kept[i].length]),
                         total_length)

\* stages/deskew.py 208-209: 'angle': weighted_angle
StageHoughAngle(line_angle) == line_angle

\* detection._detect_skew_hough from the segments on.
DetectSkewHoughSegments(segments, max_angle, std) ==
    LET kept == RetainedSegments(segments, max_angle)
    IN  IF kept = << >> THEN [angle |-> 0, confidence |-> 0]
        ELSE [angle |-> CorrectionFromLineAngle(LengthWeightedAngle(kept)),
              confidence |-> HoughConfidence(Len(kept), std)]

\* stages/deskew.py detect_skew_hough from the segments on; the confidence
\* is in 1/100.
StageSkewHoughSegments(segments, max_angle, std) ==
    LET kept == RetainedSegments(segments, max_angle)
    IN  IF kept = << >> THEN [angle |-> 0, confidence |-> 0]
        ELSE [angle |-> StageHoughAngle(LengthWeightedAngle(kept)),
              confidence |-> StageHoughConfidence(Len(kept), std * (Tick \div Deg))]

HoughSegments ==
    [dx : {0, 40}, angle : {-16 * Deg, -2 * Deg, Deg, 3 * Deg}, length : {40, 90}]

RECURSIVE SegmentSeqs(_)
SegmentSeqs(n) ==
    IF n = 0 THEN {<< >>}
    ELSE LET shorter == SegmentSeqs(n - 1)
         IN  shorter \cup { Append(q, g) : q \in { s \in shorter : Len(s) = n - 1 },
                                           g \in HoughSegments }

\* No spread with fewer than two retained segments or equal angles.
HoughInputs ==
    { a \in [segments : SegmentSeqs(MaxHoughLines), max_angle : {15 * Deg},
             std : {0, 2 * Deg}] :
        LET kept == RetainedSegments(a.segments, a.max_angle)
        IN  (a.std = 0) <=> (\A i, j \in DOMAIN kept : kept[i].angle = kept[j].angle) }

InitHough ==
    /\ op \in {"_detect_skew_hough", "detect_skew_hough"}
    /\ arg \in HoughInputs
    /\ ret = Pending
    /\ Globals

CallDetectSkewHough ==
    /\ op = "_detect_skew_hough" /\ ret = Pending
    /\ ret' = Returned(DetectSkewHoughSegments(arg.segments, arg.max_angle, arg.std))
    /\ UNCHANGED <<op, arg, pd_dewarp_available, page_dewarp_installed, observed>>

CallStageSkewHough ==
    /\ op = "detect_skew_hough" /\ ret = Pending
    /\ ret' = Returned(StageSkewHoughSegments(arg.segments, arg.max_angle, arg.std))
    /\ UNCHANGED <<op, arg, pd_dewarp_available, page_dewarp_installed, observed>>

NextHough ==
    \/ CallDetectSkewHough
    \/ CallStageSkewHough

SpecHough == InitHough /\ [][NextHough]_vars

---------------------------------------------------------------------------
(* PageProcessor.process (processor.py 98-222): the detection phase, the   *)
(* split, and deskew and dewarp page by page, for operations drawn from    *)
(* split, deskew and dewarp.  While the call runs, ret holds its locals    *)
(* (kind "running") and observed lists, in order, the calls it has made.   *)
(* The input carries what each detector measures on the image it is given: *)
(* f, s and lines on the whole image, sl and sr on the two halves.         *)

Running(v) == [kind |-> "running", value |-> v]

\* The operations the model requests.
ProcessOperations == SUBSET {"split", "deskew", "dewarp"}

\* min_skew_angle: the default 0.5 (processor.py 40) and a --min-skew-angle
\* of 0.05 (main.py 292).
MinSkewAngles == {Deg \div 2, Deg \div 20}

Tilted(a) ==
    [contrast |-> 600, est_raises |-> FALSE, count |-> MaxSegments,
     line_angle |-> a, angle_std |-> 0]

Event(call, on) == [call |-> call, on |-> on]

\* Mutant: every page uses the angle of the detection phase.
PageSkewFromSpread(n_pages, page, detection) == detection.skew_angle

\* processor.py 194-197: the angle used for one page.
PageSkew(n_pages, page, detection) ==
    IF n_pages > 1 THEN DetectSkewAngle(page.h, page.w, page.s).value
    ELSE detection.skew_angle

\* processor.py 98-133: the detectors the operations ask for, on the whole
\* image; an exception of a detector is not caught.
ProcessDetection(a) ==
    [was_facing_pages |->
         IF "split" \in a.operations /\ a.auto_detect
         THEN DetectFacingPages(a.h, a.w, a.f) ELSE Returned(FALSE),
     skew_angle |->
         IF "deskew" \in a.operations
         THEN DetectSkewAngle(a.h, a.w, a.s) ELSE Returned(0),
     curvature_score |->
         IF "dewarp" \in a.operations
         THEN DetectCurvature(a.h, a.w, a.lines) ELSE Returned(0)]

DetectionEvents(a) ==
    (IF "split" \in a.operations /\ a.auto_detect
     THEN <<Event("detect_facing_pages", "whole")>> ELSE << >>)
    \o (IF "deskew" \in a.operations
        THEN <<Event("detect_skew_angle", "whole")>> ELSE << >>)
    \o (IF "dewarp" \in a.operations
        THEN <<Event("detect_curvature", "whole")>> ELSE << >>)

\* Mutant: force_split splits whatever the operations.
ShouldSplitForced(a, was_facing_pages) ==
    a.force_split \/ ("split" \in a.operations /\ a.auto_detect /\ was_facing_pages)

\* processor.py 140-147
ShouldSplit(a, was_facing_pages) ==
    "split" \in a.operations
    /\ (a.force_split \/ (a.auto_detect /\ was_facing_pages))

\* processor.py 149-152 with split.split_facing_pages (overlap 0): the
\* columns left of gutter_x and the columns from gutter_x on.
SplitPages(a) ==
    LET gutter_x == FindGutterPosition(a.h, a.w, a.peak, a.bl, a.br)
        left_end == Min(gutter_x, a.w)
        right_start == Max(gutter_x, 0)
    IN  <<[name |-> "left", h |-> a.h, w |-> left_end, s |-> a.sl],
          [name |-> "right", h |-> a.h, w |-> a.w - right_start, s |-> a.sr]>>

ProcessInputs ==
    [h : {100}, w : {150, 19},
     operations : ProcessOperations,
     auto_detect : BOOLEAN, force_split : BOOLEAN,
     min_skew_angle : MinSkewAngles, min_curvature : {1},
     peak : {0}, bl : {0}, br : {0},
     f : {WhiteFeatures(100, 150), SpreadFeatures},
     s : {WhiteSkew, Tilted(7), Tilted(2 * Deg), Tilted(-3 * Deg)},
     sl : {WhiteSkew, Tilted(-7), Tilted(30), Tilted(-2 * Deg)},
     sr : {Tilted(7), Tilted(3 * Deg)},
     lines : {WhiteLines, <<5, 5, 5>>, CurvedLines}]

InitProcess ==
    /\ op = "process"
    /\ arg \in ProcessInputs
    /\ ret = Running([phase |-> "detecting"])
    /\ pd_dewarp_available = "None"
    /\ page_dewarp_installed \in BOOLEAN
    /\ observed = << >>

\* processor.py 98-133
ProcDetect ==
    /\ op = "process" /\ ret.kind = "running" /\ ret.value.phase = "detecting"
    /\ LET d == ProcessDetection(arg)
       IN  /\ ret' = IF d.was_facing_pages.kind = "raise" THEN d.was_facing_pages
                     ELSE IF d.skew_angle.kind = "raise" THEN d.skew_angle
                     ELSE IF d.curvature_score.kind = "raise" THEN d.curvature_score
                     ELSE Running([phase |-> "splitting",
                                   detection |->
                                     [was_facing_pages |-> d.was_facing_pages.value,
                                      skew_angle |-> d.skew_angle.value,
                                      curvature_score |-> d.curvature_score.value]])
           /\ observed' = observed \o DetectionEvents(arg)
    /\ UNCHANGED <<op, arg, pd_dewarp_available, page_dewarp_installed>>

\* processor.py 153-158: gutter_x and the sizes of the two halves.
SplitDebug(a) ==
    LET halves == SplitPages(a)
    IN  [gutter_x |-> FindGutterPosition(a.h, a.w, a.peak, a.bl, a.br),
         left_size |-> [width |-> halves[1].w, height |-> halves[1].h],
         right_size |-> [width |-> halves[2].w, height |-> halves[2].h]]

\* processor.py 136-179
ProcSplit ==
    /\ op = "process" /\ ret.kind = "running" /\ ret.value.phase = "splitting"
    /\ LET v == ret.value
           should_split == ShouldSplit(arg, v.detection.was_facing_pages)
       IN  /\ ret' = Running(
                 [phase |-> "pages",
                  detection |-> [v.detection EXCEPT !.was_facing_pages =
                                     IF "split" \in arg.operations /\ arg.force_split
                                     THEN TRUE ELSE @],
                  pages |-> IF should_split THEN SplitPages(arg)
                            ELSE <<[name |-> "whole", h |-> arg.h, w |-> arg.w,
                                    s |-> arg.s]>>,
                  operations_applied |-> IF should_split THEN <<"split">> ELSE << >>,
                  split_debug |-> IF should_split THEN SplitDebug(arg) ELSE None,
                  processed_pages |-> << >>])
           /\ observed' = IF should_split
                          THEN observed \o <<Event("find_gutter_position", "whole"),
                                             Event("split_facing_pages", "whole")>>
                          ELSE observed
    /\ UNCHANGED <<op, arg, pd_dewarp_available, page_dewarp_installed>>

AppendOnce(seq, x) ==
    IF \E k \in 1 .. Len(seq) : seq[k] = x THEN seq ELSE Append(seq, x)

\* processor.py 182-221: one turn of the loop over the pages.
ProcPage ==
    /\ op = "process" /\ ret.kind = "running" /\ ret.value.phase = "pages"
    /\ Len(ret.value.processed_pages) < Len(ret.value.pages)
    /\ LET v == ret.value
           page == v.pages[Len(v.processed_pages) + 1]
           deskew == "deskew" \in arg.operations
           page_skew == IF deskew THEN PageSkew(Len(v.pages), page, v.detection)
                        ELSE 0
           deskew_called == deskew /\ Abs(page_skew) >= arg.min_skew_angle
           tilt_after == IF deskew_called THEN DeskewPage(page.s.line_angle, page_skew)
                         ELSE page.s.line_angle
           dewarp_called == "dewarp" \in arg.operations
                            /\ v.detection.curvature_score >= arg.min_curvature
           applied_deskew == IF deskew_called
                             THEN AppendOnce(v.operations_applied, "deskew")
                             ELSE v.operations_applied
       IN  /\ pd_dewarp_available' =
                 IF dewarp_called
                 THEN LoadPageDewarp(pd_dewarp_available, page_dewarp_installed)
                 ELSE pd_dewarp_available
           /\ \E out \in IF dewarp_called THEN DewarpPageOutcomes(pd_dewarp_available')
                         ELSE {Returned("original")} :
                ret' = Running(
                    [v EXCEPT
                       !.operations_applied =
                           IF dewarp_called THEN AppendOnce(applied_deskew, "dewarp")
                           ELSE applied_deskew,
                       !.processed_pages = Append(@,
                           [name |-> page.name, page_skew |-> page_skew,
                            deskew_called |-> deskew_called,
                            rotated |-> tilt_after # page.s.line_angle,
                            tilt_after |-> tilt_after,
                            dewarp_called |-> dewarp_called,
                            dewarped |-> out.value = "dewarped"])])
           /\ observed' = observed
                 \o (IF deskew /\ Len(v.pages) > 1
                     THEN <<Event("detect_skew_angle", page.name)>> ELSE << >>)
                 \o (IF deskew_called THEN <<Event("deskew_page", page.name)>>
                     ELSE << >>)
                 \o (IF dewarp_called THEN <<Event("dewarp_page", page.name)>>
                     ELSE << >>)
    /\ UNCHANGED <<op, arg, page_dewarp_installed>>

\* processor.py 306-308: the suffix of the file each page is saved to.
PageSuffixes(n_pages) ==
    IF n_pages > 1 THEN [i \in 1 .. n_pages |-> i] ELSE <<0>>

\* The result once every page went through the loop (processor.py 224-340,
\* 'crop' not being among the operations): one output path and one output
\* size for every processed page; SpecOutput has the dimensions.
ProcReturn ==
    /\ op = "process" /\ ret.kind = "running" /\ ret.value.phase = "pages"
    /\ Len(ret.value.processed_pages) = Len(ret.value.pages)
    /\ ret' = Returned([detection |-> ret.value.detection,
                        operations_applied |-> ret.value.operations_applied,
                        pages |-> ret.value.processed_pages,
                        output_paths |-> PageSuffixes(Len(ret.value.processed_pages)),
                        output_sizes |-> [i \in 1 .. Len(ret.value.processed_pages) |->
                                            ret.value.processed_pages[i].name],
                        split_debug |-> ret.value.split_debug])
    /\ UNCHANGED <<op, arg, pd_dewarp_available, page_dewarp_installed, observed>>

NextProcess ==
    \/ ProcDetect
    \/ ProcSplit
    \/ ProcPage
    \/ ProcReturn

SpecProcess == InitProcess /\ [][NextProcess]_vars

---------------------------------------------------------------------------
(* main.py, the pad command (362-417): symmetric padding of an image to a  *)
(* target canvas.  The input file is unreadable, or an image of w x h      *)
(* pixels of 8 or 16 bits per sample (cv2.IMREAD_UNCHANGED keeps the       *)
(* depth); write is what cv2.imwrite does with the output path: it writes  *)
(* and returns True, returns False, or raises.  A pixel of the canvas is   *)
(* the fill value or the coordinates <<x, y>> of the input pixel copied    *)
(* there.  The outcome is the exit status, the codes of the error objects  *)
(* on stderr, the number of result lines on stdout and the image written.  *)

MaxPad == 4

\* np.full(..., 255, dtype=image.dtype)
PadFill == 255

PadExit(status, code) ==
    [status |-> status, stderr |-> <<code>>, results |-> 0, written |-> None]

\* main.py 391-392: max(0, (target - extent) // 2)
PadOffset(target, extent) == Max(0, (target - extent) \div 2)

\* main.py 386-393
PadCanvas(w, h, target_w, target_h) ==
    LET x_off == PadOffset(target_w, w)
        y_off == PadOffset(target_h, h)
    IN  [p \in (0 .. target_w - 1) \X (0 .. target_h - 1) |->
           IF /\ x_off <= p[1] /\ p[1] < x_off + w
              /\ y_off <= p[2] /\ p[2] < y_off + h
           THEN <<p[1] - x_off, p[2] - y_off>>
           ELSE PadFill]

\* main.py 362-417
Pad(a) ==
    IF ~a.readable THEN PadExit(1, "LOAD_FAILED")
    ELSE IF a.target_w <= 0 \/ a.target_h <= 0 THEN PadExit(1, "INVALID_TARGET")
    ELSE IF a.w > a.target_w \/ a.h > a.target_h
    THEN PadExit(1, "TARGET_TOO_SMALL")
    ELSE IF a.write = "raise" THEN PadExit(1, "PROCESSING_ERROR")
    ELSE IF a.write = "false" THEN PadExit(1, "WRITE_FAILED")
    ELSE [status |-> 0, stderr |-> << >>, results |-> 1,
          written |-> [width |-> a.target_w, height |-> a.target_h,
                       depth |-> a.depth,
                       canvas |-> PadCanvas(a.w, a.h, a.target_w, a.target_h)]]

PadInputs ==
    [readable : BOOLEAN, w : 1 .. MaxPad - 1, h : 1 .. MaxPad - 1,
     depth : {8, 16},
     target_w : -1 .. MaxPad, target_h : -1 .. MaxPad,
     write : {"true", "false", "raise"}]

InitPad ==
    /\ op = "pad"
    /\ arg \in PadInputs
    /\ ret = Pending
    /\ Globals

CallPad ==
    /\ op = "pad" /\ ret = Pending
    /\ ret' = Returned(Pad(arg))
    /\ UNCHANGED <<op, arg, pd_dewarp_available, page_dewarp_installed, observed>>

SpecPad == InitPad /\ [][CallPad]_vars

---------------------------------------------------------------------------
(* main.py main (283-589): one run of the command line after argument      *)
(* parsing.  arg holds the command and what its environment does:          *)
(*   makedirs_ok   os.makedirs of the output directory succeeds            *)
(*   stage_first   detect: the first positional is a stage name            *)
(*   input_given   detect with a stage: the input path is present          *)
(*   params_valid  apply: --params parses as JSON                          *)
(*   dpi           img2pdf, img2pdf-pages: --dpi                           *)
(*   images        img2pdf-pages: number of input images                   *)
(*   work          the command's own work returns or raises an Exception   *)
(*   serialisable  json.dumps accepts the result dictionary                *)
(*   progress      process: progress updates the processor sends before    *)
(*                 it returns or raises                                    *)
(*   pad           pad: the input of Pad                                   *)
(* While the run lasts ret holds its position (kind "running"): pc, the    *)
(* lines on stdout, the error objects on stderr and the exception in       *)
(* flight; at the end it holds the exit status with both streams.          *)

MaxProgress == 3

Commands ==
    {"process", "detect", "apply", "list-stages", "pad", "img2pdf",
     "img2pdf-pages"}

CliBase ==
    [command |-> "list-stages", makedirs_ok |-> TRUE, stage_first |-> FALSE,
     input_given |-> TRUE, params_valid |-> TRUE, dpi |-> 300, images |-> 1,
     work |-> "returns", serialisable |-> TRUE, progress |-> 0, pad |-> None]

PadCases ==
    { a \in PadInputs : a.w = 1 /\ a.h = 2 /\ a.depth = 8
                         /\ a.target_w \in {0, 1} /\ a.target_h \in {1, 2} }

CliInputs ==
    { [CliBase EXCEPT !.command = c, !.work = k, !.serialisable = s] :
        c \in Commands \ {"pad", "process"}, k \in {"returns", "raises"},
        s \in BOOLEAN }
    \cup { [CliBase EXCEPT !.command = "process", !.makedirs_ok = m,
                           !.work = k, !.serialisable = s, !.progress = n] :
             m \in BOOLEAN, k \in {"returns", "raises"}, s \in BOOLEAN,
             n \in 0 .. MaxProgress }
    \cup { [CliBase EXCEPT !.command = "detect", !.stage_first = TRUE,
                           !.input_given = g, !.work = k] :
             g \in BOOLEAN, k \in {"returns", "raises"} }
    \cup { [CliBase EXCEPT !.command = "apply", !.params_valid = FALSE] }
    \cup { [CliBase EXCEPT !.command = c, !.dpi = d, !.images = n, !.work = k] :
             c \in {"img2pdf", "img2pdf-pages"}, d \in {0, 300}, n \in {0, 1},
             k \in {"returns", "raises"} }
    \cup { [CliBase EXCEPT !.command = "pad", !.pad = a] : a \in PadCases }

\* main.py 307-315, 337-342, 423-426, 450-457: the checks a command makes
\* before its work; the code it reports, or "" when they pass.
CliValidation(a) ==
    CASE a.command = "detect" /\ a.stage_first /\ ~a.input_given -> "MISSING_INPUT"
      [] a.command = "apply" /\ ~a.params_valid -> "INVALID_PARAMS"
      [] a.command \in {"img2pdf", "img2pdf-pages"} /\ a.dpi <= 0 -> "INVALID_DPI"
      [] a.command = "img2pdf-pages" /\ a.dpi > 0 /\ a.images = 0 -> "MISSING_INPUT"
      [] OTHER -> ""

\* Mutant: the handler at the end of main catches SystemExit as well.
OuterHandlerCatchesExit(stderr, exc) == Append(stderr, "PROCESSING_ERROR")

\* main.py 587-589: except Exception; sys.exit(1) raises SystemExit, which
\* is not an Exception and passes through.
OuterHandler(stderr, exc) ==
    IF exc = "Exception" THEN Append(stderr, "PROCESSING_ERROR") ELSE stderr

CliAt(pc, stdout, stderr, exc) ==
    Running([pc |-> pc, stdout |-> stdout, stderr |-> stderr, exc |-> exc])

InitCli ==
    /\ op = "main"
    /\ arg \in CliInputs
    /\ ret = CliAt("start", << >>, << >>, "")
    /\ Globals

\* The command's branch up to the start of its work.
CliStart ==
    /\ op = "main" /\ ret.kind = "running" /\ ret.value.pc = "start"
    /\ LET code == CliValidation(arg)
       IN  ret' = IF arg.command = "process"
                  THEN IF ~arg.makedirs_ok
                       THEN CliAt("handling", << >>, << >>, "Exception")
                       \* process_image: send_progress "loading"
                       ELSE CliAt("working", <<"progress">>, << >>, "")
                  ELSE IF code # ""
                  \* send_error(...); sys.exit(1)
                  THEN CliAt("handling", << >>, <<code>>, "SystemExit")
                  ELSE CliAt("working", << >>, << >>, "")
    /\ UNCHANGED <<op, arg, pd_dewarp_available, page_dewarp_installed, observed>>

\* processor.py 69-75: one progress update through the callback.
CliProgress ==
    /\ op = "main" /\ ret.kind = "running" /\ ret.value.pc = "working"
    /\ arg.command = "process"
    /\ Len(ret.value.stdout) < 1 + arg.progress
    /\ ret' = CliAt("working", Append(ret.value.stdout, "progress"),
                    ret.value.stderr, "")
    /\ UNCHANGED <<op, arg, pd_dewarp_available, page_dewarp_installed, observed>>

\* The work of the command: it returns a result dictionary, reports an
\* error and exits, or raises.
CliWork ==
    /\ op = "main" /\ ret.kind = "running" /\ ret.value.pc = "working"
    /\ arg.command = "process" => Len(ret.value.stdout) = 1 + arg.progress
    /\ LET v == ret.value
           padded == Pad(arg.pad)
       IN  ret' =
             IF arg.command = "pad"
             THEN IF padded.status = 0 THEN CliAt("sending", v.stdout, v.stderr, "")
                  ELSE IF padded.stderr = <<"PROCESSING_ERROR">>
                  THEN CliAt("handling", v.stdout, v.stderr, "Exception")
                  ELSE CliAt("handling", v.stdout, padded.stderr, "SystemExit")
             ELSE IF arg.work = "returns"
             THEN CliAt("sending", v.stdout, v.stderr, "")
             ELSE IF arg.command \in {"img2pdf", "img2pdf-pages"}
             \* main.py 434-436, 575-577
             THEN CliAt("handling", v.stdout,
                        Append(v.stderr, "IMG2PDF_FAILED"), "SystemExit")
             ELSE CliAt("handling", v.stdout, v.stderr, "Exception")
    /\ UNCHANGED <<op, arg, pd_dewarp_available, page_dewarp_installed, observed>>

\* main.py 50-52 send_result: json.dumps, then one line on stdout; the run
\* then leaves main with status 0.
CliSend ==
    /\ op = "main" /\ ret.kind = "running" /\ ret.value.pc = "sending"
    /\ ret' = IF arg.serialisable
              THEN Returned([status |-> 0,
                             stdout |-> Append(ret.value.stdout, "result"),
                             stderr |-> ret.value.stderr])
              ELSE CliAt("handling", ret.value.stdout, ret.value.stderr,
                         "Exception")
    /\ UNCHANGED <<op, arg, pd_dewarp_available, page_dewarp_installed, observed>>

\* main.py 587-589 and the exit of the interpreter with status 1.
CliHandle ==
    /\ op = "main" /\ ret.kind = "running" /\ ret.value.pc = "handling"
    /\ ret' = Returned([status |-> 1,
                        stdout |-> ret.value.stdout,
                        stderr |-> OuterHandler(ret.value.stderr, ret.value.exc)])
    /\ UNCHANGED <<op, arg, pd_dewarp_available, page_dewarp_installed, observed>>

NextCli ==
    \/ CliStart
    \/ CliProgress
    \/ CliWork
    \/ CliSend
    \/ CliHandle

SpecCli == InitCli /\ [][NextCli]_vars

---------------------------------------------------------------------------
(* C1: detect_facing_pages returns false for every image whose width is    *)
(* less than 1.05 times its height, whatever the image contains.           *)
C1_NarrowImageNotFacing ==
    (op = "detect_facing_pages" /\ ret # Pending /\ 100 * arg.w < 105 * arg.h)
        => ret = Returned(FALSE)

\* A landscape image just under the gate whose valley confidence alone
\* would pass the decision ladder, answered false.
C1_Witness ==
    /\ op = "detect_facing_pages"
    /\ arg.w > arg.h /\ 100 * arg.w < 105 * arg.h
    /\ "f" \in DOMAIN arg /\ arg.f.valley_conf >= 55
    /\ ret = Returned(FALSE)

---------------------------------------------------------------------------
(* C2: whenever detect_content_bounds returns a box for a W x H image, the *)
(* box is in original coordinates and inside the image: 0 <= x, 0 <= y,    *)
(* width >= 1, height >= 1, x + width <= W, y + height <= H, with and      *)
(* without downscaling.                                                    *)
C2_BoxInsideImage ==
    (op = "detect_content_bounds" /\ ret.kind = "return" /\ ret.value # None) =>
        LET b == ret.value
        IN  /\ 0 <= b.x /\ 0 <= b.y
            /\ b.width >= 1 /\ b.height >= 1
            /\ b.x + b.width <= arg.w
            /\ b.y + b.height <= arg.h

\* A downscaled image whose mapped-back box had to be cut at the right edge.
C2_Witness ==
    /\ op = "detect_content_bounds" /\ ret.kind = "return" /\ ret.value # None
    /\ Max(arg.w, arg.h) > MaxDim
    /\ LET an == ResizeForAnalysis(arg.h, arg.w)
       IN  RoundHalfEven(arg.fg.x1 * an.den, an.num)
             + RoundHalfEven((arg.fg.x2 - arg.fg.x1 + 1) * an.den, an.num) > arg.w

---------------------------------------------------------------------------
(* C3: find_gutter_position returns an integer x in original coordinates   *)
(* with int(0.03*W) <= x <= int(0.97*W), hence 0 <= x < W, on the normal   *)
(* path (with or without downscaling) and on the narrow-window early       *)
(* return.                                                                 *)
C3_GutterInsideClamp ==
    (op = "find_gutter_position" /\ ret.kind = "return") =>
        /\ MinGutterX(arg.w) <= ret.value
        /\ ret.value <= MaxGutterX(arg.w)
        /\ 0 <= ret.value /\ ret.value < arg.w

\* The normal path on a downscaled image, the band centre right of the peak.
C3_Witness ==
    /\ op = "find_gutter_position" /\ ret.kind = "return"
    /\ arg.w > MaxDim
    /\ ~WindowTooNarrow(ResizeForAnalysis(arg.h, arg.w).w)
    /\ arg.br > arg.bl
    /\ ret.value > arg.w \div 2

\* The early return: the window is too narrow and the centre is returned.
C3_WitnessNarrow ==
    /\ op = "find_gutter_position" /\ ret.kind = "return"
    /\ WindowTooNarrow(ResizeForAnalysis(arg.h, arg.w).w)
    /\ arg.w > MaxDim \div 100
    /\ ret.value = arg.w \div 2

---------------------------------------------------------------------------
(* C4: an all-white image of any size yields the neutral output of every   *)
(* whole-page detector: detect_content_bounds absent, detect_facing_pages  *)
(* false, detect_skew_angle 0.0, detect_curvature 0.0.                     *)
C4_BlankIsNeutral ==
    (arg.white = TRUE /\ ret # Pending) =>
        /\ ret.kind = "return"
        /\ op = "detect_content_bounds" => ret.value = None
        /\ op = "detect_facing_pages" => ret.value = FALSE
        /\ op = "detect_skew_angle" => ret.value = 0
        /\ op = "detect_curvature" => ret.value = 0

\* The part of C4 that the code keeps: whenever a detector returns at all on
\* an all-white image, it returns its neutral output.
C4_BlankNeutralWhenReturned ==
    (arg.white = TRUE /\ ret # Pending /\ ret.kind = "return") =>
        /\ op = "detect_content_bounds" => ret.value = None
        /\ op = "detect_facing_pages" => ret.value = FALSE
        /\ op = "detect_skew_angle" => ret.value = 0
        /\ op = "detect_curvature" => ret.value = 0

\* A wide all-white image on which every tier of detect_facing_pages,
\* the gutter-locator tier included, is evaluated and the answer is false.
C4_Witness ==
    /\ op = "detect_facing_pages" /\ arg.white = TRUE
    /\ ~AspectGate(arg.h, arg.w)
    /\ arg.w > MaxDim
    /\ ret = Returned(FALSE)

---------------------------------------------------------------------------
(* C5: detect_skew_angle never raises and returns either 0.0 or the        *)
(* correction angle of its Hough estimator; a nonzero result implies       *)
(* contrast (grey-level standard deviation) of at least 5, confidence of   *)
(* at least 0.40, magnitude of at most 10 degrees, and magnitude of at     *)
(* most 5 degrees unless the confidence is at least 0.70; an image of low  *)
(* contrast and an estimator that raises both give exactly 0.0.            *)
C5_SkewGuardrails ==
    (op = "detect_skew_angle" /\ ret # Pending) =>
        LET s == arg.s
            conf == HoughConfidence(s.count, s.angle_std)
        IN  /\ ret.kind = "return"
            /\ ret.value \in {0, -s.line_angle}
            /\ (s.contrast < 50 \/ s.est_raises) => ret.value = 0
            /\ ret.value # 0 =>
                 /\ s.contrast >= 50
                 /\ 100 * conf >= 40 * ConfUnit
                 /\ Abs(ret.value) <= 10 * Deg
                 /\ (Abs(ret.value) <= 5 * Deg \/ 100 * conf >= 70 * ConfUnit)

\* An angle between 5 and 10 degrees returned on the strength of a
\* confidence of at least 0.70.
C5_Witness ==
    /\ op = "detect_skew_angle" /\ "s" \in DOMAIN arg
    /\ ret.kind = "return"
    /\ Abs(ret.value) > 5 * Deg
    /\ 100 * HoughConfidence(arg.s.count, arg.s.angle_std) >= 70 * ConfUnit

---------------------------------------------------------------------------
(* C6: the sign convention of the detected skew and of deskew_page agree   *)
(* end to end: when a page whose text lines are tilted by a few degrees is *)
(* measured by detect_skew_angle and the measured angle is applied by      *)
(* deskew_page, the text lines come out level (within the 0.5 degree       *)
(* below which no correction is made).                                     *)
C6_DeskewLevelsThePage ==
    (op = "process" /\ ret # Pending /\ ret.value.applied)
        => Abs(ret.value.tilt_after) < MinSkewAngle

\* What the code does instead: a correction that is applied doubles the
\* tilt of the text lines.
C6_AppliedCorrectionDoublesTilt ==
    (op = "process" /\ ret # Pending /\ ret.value.applied)
        => ret.value.tilt_after = 2 * arg.s.line_angle

C6_Witness ==
    /\ op = "process" /\ ret # Pending /\ ret.value.applied
    /\ arg.s.line_angle = 2 * Deg
    /\ ret.value.page_skew = -2 * Deg
    /\ ret.value.tilt_after = 4 * Deg

---------------------------------------------------------------------------
(* C9: every DeskewResult satisfies |angle| <= max_angle; when the fused   *)
(* angle exceeded max_angle in magnitude the reported angle is exactly     *)
(* +/- max_angle with the sign of the fused angle and the reported         *)
(* confidence is half the fused confidence; when it did not, angle and     *)
(* confidence are reported unchanged.  This is the statement as claimed;   *)
(* the reported angle is rounded to three decimals, so it does not hold.   *)
C9_AngleClampedUnrounded ==
    (op = "detect_deskew" /\ ret.kind = "return") =>
        LET fused == FusedOf(arg)
        IN  /\ Abs(ret.value.angle) <= arg.max_angle
            /\ Abs(fused.angle) > arg.max_angle =>
                 /\ ret.value.angle = Sign(fused.angle) * arg.max_angle
                 /\ 2 * ret.value.confidence = fused.confidence
            /\ Abs(fused.angle) <= arg.max_angle =>
                 /\ ret.value.angle = fused.angle
                 /\ ret.value.confidence = fused.confidence

(* C9 as the code has it: the reported angle is the fused angle, limited   *)
(* to +/- max_angle and then rounded to three decimals.  Hence |angle| <=  *)
(* max_angle rounded to three decimals (max_angle itself when it has no    *)
(* more than three decimals); when the fused angle exceeded max_angle the  *)
(* reported angle is +/- the rounded max_angle with the sign of the fused  *)
(* angle and the confidence is half the fused confidence; when it did not, *)
(* the reported angle is the fused angle rounded to three decimals and the *)
(* confidence is the fused confidence.                                     *)
C9_AngleClampedThenRounded ==
    (op = "detect_deskew" /\ ret.kind = "return") =>
        LET fused == FusedOf(arg)
        IN  /\ Abs(ret.value.angle) <= Round3(arg.max_angle)
            /\ arg.max_angle % 10 = 0 => Abs(ret.value.angle) <= arg.max_angle
            /\ Abs(fused.angle) > arg.max_angle =>
                 /\ ret.value.angle = Sign(fused.angle) * Round3(arg.max_angle)
                 /\ 2 * ret.value.confidence = fused.confidence
            /\ Abs(fused.angle) <= arg.max_angle =>
                 /\ ret.value.angle = Round3(fused.angle)
                 /\ ret.value.confidence = fused.confidence

\* A fused angle beyond max_angle, owed to the projection estimator's fine
\* search, reported at the rounded limit with a confidence above zero.
C9_Witness ==
    /\ op = "detect_deskew" /\ ret.kind = "return"
    /\ Abs(FusedOf(arg).angle) > arg.max_angle
    /\ Abs(ret.value.angle) = Round3(arg.max_angle)
    /\ ret.value.confidence > 0

---------------------------------------------------------------------------
(* C10: in every DeskewResult, needs_correction is true if and only if     *)
(* |angle| >= min_angle for the angle reported in that result.             *)
C10_NeedsCorrectionMatchesReportedAngle ==
    (op = "detect_deskew" /\ ret.kind = "return") =>
        (ret.value.needs_correction <=> Abs(ret.value.angle) >= arg.min_angle)

\* What the code keeps: needs_correction compares the clamped angle before
\* it is rounded.
C10_NeedsCorrectionMatchesUnroundedAngle ==
    (op = "detect_deskew" /\ ret.kind = "return") =>
        (ret.value.needs_correction <=>
           Abs(ClampAngle(FusedOf(arg), arg.max_angle).angle) >= arg.min_angle)

---------------------------------------------------------------------------
---------------------------------------------------------------------------
(* C8: the confidence of every RotationResult, DeskewResult, SplitResult   *)
(* and DewarpResult lies in [0, 1], whatever scores the sub-detectors      *)
(* produce, the clamped-angle path of detect_deskew and the all-zero path  *)
(* included.                                                               *)
C8_ConfidenceInUnitInterval ==
    (ret.kind = "return" /\ op \in {"detect_rotation", "detect_deskew",
                                    "detect_split", "detect_dewarp"}) =>
        /\ ret.value.confidence >= 0
        /\ op = "detect_rotation" => ret.value.confidence <= RotationConfUnit
        /\ op = "detect_deskew" => ret.value.confidence <= DeskewConfUnit
        /\ op = "detect_split" => ret.value.confidence <= SplitConfUnit
        /\ op = "detect_dewarp" => ret.value.confidence <= Pct

\* A DewarpResult built from more than ten fitted lines, where only the
\* limit keeps the confidence at 1.
C8_Witness ==
    /\ op = "detect_dewarp" /\ ret.kind = "return"
    /\ Len(FittedCurvatures(arg.lines)) > 10
    /\ ret.value.confidence = Pct

\* A DeskewResult on the clamped-angle path with every estimator certain.
C8_WitnessClamped ==
    /\ op = "detect_deskew" /\ ret.kind = "return"
    /\ Abs(FusedOf(arg).angle) > arg.max_angle
    /\ FusedOf(arg).confidence = DeskewConfUnit
    /\ 2 * ret.value.confidence = DeskewConfUnit

\* A RotationResult whose three sub-signals all give full score to one
\* candidate.
C8_WitnessRotation ==
    /\ op = "detect_rotation" /\ ret.kind = "return"
    /\ ret.value.confidence = RotationConfUnit

---------------------------------------------------------------------------
(* C11: detect_rotation returns a rotation in {0, 90, 180, 270} whose      *)
(* weighted sum 0.5 * text + 0.3 * edge + 0.2 * content is maximal among   *)
(* the four candidates, with confidence min(1.0, that sum); when one       *)
(* sub-scorer alone scores s on 90 and every other score is zero the       *)
(* result is 90 with confidence weight * s; when all sub-scores are zero   *)
(* the result is rotation 0 with confidence 0.                             *)
C11_RotationIsArgmax ==
    (op = "detect_rotation" /\ ret.kind = "return") =>
        LET text == DetectTextOrientation(arg)
            edge == DetectEdgeOrientation(arg)
            content == DetectContentOrientation(arg)
            sum == [c \in Rotations |-> 5 * text[c] + 3 * edge[c] + 2 * content[c]]
            alone(one, w, a, b) ==
                /\ one[90] > 0
                /\ \A c \in Rotations \ {90} : one[c] = 0
                /\ a = NoScores /\ b = NoScores
                => (ret.value.rotation = 90 /\ ret.value.confidence = w * one[90])
        IN  /\ ret.value.rotation \in Rotations
            /\ \A c \in Rotations : sum[c] <= sum[ret.value.rotation]
            /\ ret.value.confidence = Min(RotationConfUnit, sum[ret.value.rotation])
            /\ alone(text, 5, edge, content)
            /\ alone(edge, 3, text, content)
            /\ alone(content, 2, text, edge)
            /\ (text = NoScores /\ edge = NoScores /\ content = NoScores)
                 => (ret.value.rotation = 0 /\ ret.value.confidence = 0)

\* The content sub-scorer alone scores on 90 and the result is 90 with
\* confidence 0.2 times that score.
C11_Witness ==
    /\ op = "detect_rotation" /\ ret.kind = "return"
    /\ DetectTextOrientation(arg) = NoScores
    /\ DetectEdgeOrientation(arg) = NoScores
    /\ DetectContentOrientation(arg)[90] > 0
    /\ ret.value.rotation = 90
    /\ ret.value.confidence = 2 * DetectContentOrientation(arg)[90]

\* Every sub-score zero: rotation 0, confidence 0.
C11_WitnessNeutral ==
    /\ op = "detect_rotation" /\ ret.kind = "return"
    /\ Candidates(arg) = NoScores
    /\ ret.value = [rotation |-> 0, confidence |-> 0]

---------------------------------------------------------------------------
(* C12: for an image with width / height >= 1.05 whose central analysis    *)
(* window is wider than 10 columns, detect_facing_pages returns true       *)
(* whenever ink-valley confidence >= 0.55, or shadow confidence >= 0.45,   *)
(* or ink-valley confidence >= 0.35 and edge-valley confidence >= 0.25,    *)
(* whatever the later tiers would have said.                               *)
C12_LadderDecides ==
    (op = "detect_facing_pages" /\ ret # Pending /\ "f" \in DOMAIN arg) =>
        LET ws == ResizeForAnalysis(arg.h, arg.w).w
            f == arg.f
        IN  ( /\ 100 * arg.w >= 105 * arg.h
              /\ (ws * 95) \div 100 - (ws * 5) \div 100 > 10
              /\ \/ f.valley_conf >= 55
                 \/ f.shadow_conf >= 45
                 \/ (f.valley_conf >= 35 /\ f.edge_conf >= 25) )
            => ret = Returned(TRUE)

\* The corroborated rung decides although every later tier says false.
C12_Witness ==
    /\ op = "detect_facing_pages" /\ "f" \in DOMAIN arg
    /\ arg.f.valley_conf = 35 /\ arg.f.edge_conf = 25 /\ arg.f.shadow_conf = 0
    /\ ~BrightCentre(arg.f) /\ ~EdgeGap(arg.f)
    /\ ~GutterTier(arg.h, arg.w, arg.f)
    /\ ret = Returned(TRUE)

---------------------------------------------------------------------------
(* C13: detect_facing_pages calls find_gutter_position only after the      *)
(* aspect gate passed and the decision ladder, the brightness test (centre *)
(* brighter than the outer strips by more than 20) and the edge-gap test   *)
(* (centre density < 0.6 x outer density) all failed; in that tier it      *)
(* returns true iff ink-valley depth at the gutter >= 0.12 with local edge *)
(* density < 0.80 x overall edge density (overall > 0), or depth >= 0.20,  *)
(* or the gutter lies within 15% .. 85% of the width with shadow dip >=    *)
(* 0.06; otherwise, and whenever the tier raises, it returns false.        *)
C13_GutterTierLast ==
    (op = "detect_facing_pages" /\ ret # Pending /\ "f" \in DOMAIN arg) =>
        \A c \in observed :
            c.op = "find_gutter_position" =>
                LET ws == ResizeForAnalysis(arg.h, arg.w).w
                    f == arg.f
                    ladder == \/ f.valley_conf >= 55
                              \/ f.shadow_conf >= 45
                              \/ (f.valley_conf >= 35 /\ f.edge_conf >= 25)
                    wide == (ws * 95) \div 100 > (ws * 5) \div 100 + 10
                IN  /\ 100 * arg.w >= 105 * arg.h
                    /\ ~(wide /\ ladder)
                    /\ f.brightness_diff <= 20
                    /\ ~(f.edge_density > 0
                         /\ 10 * f.center_density < 6 * f.edge_density)
                    /\ ret.kind = "return"
                    /\ c.ret.kind = "raise" => ret.value = FALSE
                    /\ c.ret.kind = "return" =>
                         (ret.value = TRUE <=>
                            \/ /\ f.white_valley_depth >= 12
                               /\ f.overall_ed > 0
                               /\ 10 * f.center_ed < 8 * f.overall_ed
                            \/ f.white_valley_depth >= 20
                            \/ /\ 15 * arg.w <= 100 * c.ret.value
                               /\ 100 * c.ret.value <= 85 * arg.w
                               /\ f.dark_dip >= 6)

\* The located gutter lies outside 15% .. 85% of the width, so the shadow
\* dip of 0.06 does not count and the answer is false.
C13_Witness ==
    /\ op = "detect_facing_pages" /\ "f" \in DOMAIN arg
    /\ \E c \in observed :
         /\ c.op = "find_gutter_position" /\ c.ret.kind = "return"
         /\ 100 * c.ret.value < 15 * arg.w
    /\ arg.f.dark_dip >= 6
    /\ ret = Returned(FALSE)

\* The tier decides true by the shadow dip at a central gutter.
C13_WitnessTrue ==
    /\ op = "detect_facing_pages" /\ "f" \in DOMAIN arg
    /\ \E c \in observed : c.op = "find_gutter_position" /\ c.ret.kind = "return"
    /\ arg.f.white_valley_depth = 0 /\ arg.f.dark_dip >= 6
    /\ ret = Returned(TRUE)

---------------------------------------------------------------------------
(* C14: on degenerate input find_gutter_position returns the image centre  *)
(* W // 2, both when the search window is too narrow (int(0.90 * ws) <=    *)
(* int(0.10 * ws) + 10) and when the image is uniform, so that the ink,    *)
(* edge and shadow curves are flat.                                        *)
C14_DegenerateGivesCentre ==
    (op = "find_gutter_position" /\ ret # Pending /\ "white" \in DOMAIN arg)
        => ret = Returned(arg.w \div 2)

\* The part of C14 that the code keeps: the narrow window gives W // 2, and
\* the uniform image gives the centre of the search window, which lies at
\* most at W // 2 and within two analysis columns of it.
C14_UniformGivesWindowCentre ==
    (op = "find_gutter_position" /\ ret # Pending /\ "white" \in DOMAIN arg) =>
        LET an == ResizeForAnalysis(arg.h, arg.w)
            start == (an.w * 10) \div 100
            end == (an.w * 90) \div 100
        IN  IF end <= start + 10 THEN ret = Returned(arg.w \div 2)
            ELSE /\ ret.value = ClampGutter(
                       RoundHalfEven((start + (end - start - 1) \div 2) * an.den,
                                     an.num), arg.w)
                 /\ ret.value <= arg.w \div 2
                 /\ (arg.w \div 2 - ret.value) * an.num <= 2 * an.den + an.num

C14_Witness ==
    /\ op = "find_gutter_position" /\ "white" \in DOMAIN arg
    /\ arg.w = 100 /\ arg.h = 100
    /\ ret = Returned(49)

---------------------------------------------------------------------------
(* split.split_facing_pages (split.py 240-268): the two halves as ranges   *)
(* of columns [from, to) of the image, with gutter_x given or, when it is  *)
(* None (detect), taken from find_gutter_position.                         *)

MaxOverlap == 2

\* Mutant: the right page starts one column after the gutter.
SplitFacingPagesSkipGutter(w, gutter_x, overlap) ==
    [left |-> [from |-> 0, to |-> Min(gutter_x + overlap, w)],
     right |-> [from |-> Max(gutter_x - overlap, 0) + 1, to |-> w]]

\* split.py 261-266, for 0 <= gutter_x and 0 <= overlap
SplitFacingPages(w, gutter_x, overlap) ==
    LET left_end == Min(gutter_x + overlap, w)
        right_start == Max(gutter_x - overlap, 0)
    IN  [left |-> [from |-> 0, to |-> left_end],
         right |-> [from |-> Min(right_start, w), to |-> w]]

InitHalves ==
    /\ op = "split_facing_pages"
    /\ \E w \in Dims, h \in {1, 100, 3001, 30000}, detect \in BOOLEAN :
         \E peak \in GutterPeaks(ResizeForAnalysis(h, w).w) :
           \E bl \in {0, MaxBand}, br \in {0, MaxBand}, overlap \in 0 .. MaxOverlap :
             \E gutter_x \in IF detect THEN {0} ELSE 0 .. Min(w, MaxSmallDim) :
               /\ WindowTooNarrow(ResizeForAnalysis(h, w).w) => (bl = 0 /\ br = 0)
               /\ arg = [w |-> w, h |-> h, peak |-> peak, bl |-> bl, br |-> br,
                         detect |-> detect, gutter_x |-> gutter_x,
                         overlap |-> overlap]
    /\ ret = Pending
    /\ pd_dewarp_available = "None"
    /\ page_dewarp_installed = TRUE
    /\ observed = {}

CallSplitFacingPages ==
    /\ op = "split_facing_pages" /\ ret = Pending
    /\ LET gutter_x == IF arg.detect
                       THEN FindGutterPosition(arg.h, arg.w, arg.peak, arg.bl, arg.br)
                       ELSE arg.gutter_x
           halves == SplitFacingPages(arg.w, gutter_x, arg.overlap)
       IN  ret' = Returned([gutter_x |-> gutter_x,
                            left |-> halves.left, right |-> halves.right])
    /\ UNCHANGED <<op, arg, pd_dewarp_available, page_dewarp_installed, observed>>

SpecHalves == InitHalves /\ [][CallSplitFacingPages]_vars

---------------------------------------------------------------------------
(* PageProcessor.process from the end of the page loop on (processor.py    *)
(* 224-340): crop, the padding of a split pair to one size, and the save.  *)
(* A page is its width, its height and its pixels; a pixel of a processed  *)
(* page is named by the page and its place in it, a pixel of the fill is   *)
(* white.  bounds is what detect_content_bounds reports on each page;        *)
(* processed keeps the pages as they were before the padding, saved the    *)
(* images cv2.imwrite was given.                                           *)

MaxPageW == 3

MaxPageH == 4

CanvasFill == 255

\* np.full(..., 255, dtype=np.uint8): a pixel of the canvas before the copy.
WhitePixel == <<"white", CanvasFill, CanvasFill>>

Page(name, w, h) ==
    [w |-> w, h |-> h,
     pix |-> [p \in (0 .. w - 1) \X (0 .. h - 1) |-> <<name, p[1], p[2]>>]]

\* page[y1:y2, x1:x2] for 0 <= x1, x2 <= w and 0 <= y1, y2 <= h.
Slice(page, x1, x2, y1, y2) ==
    LET w == Max(0, x2 - x1)
        h == Max(0, y2 - y1)
    IN  [w |-> w, h |-> h,
         pix |-> [p \in (0 .. w - 1) \X (0 .. h - 1) |->
                    page.pix[<<p[1] + x1, p[2] + y1>>]]]

\* crop.py 29-45 with bounds given
CropToContent(page, bounds, padding) ==
    LET x == Max(0, bounds.x - padding)
        y == Max(0, bounds.y - padding)
        x2 == Min(page.w, bounds.x + bounds.width + padding)
        y2 == Min(page.h, bounds.y + bounds.height + padding)
    IN  Slice(page, x, x2, y, y2)

\* Mutant: each half is cropped to its own content on both sides.
ContentColumns(i, b, pw, pad) ==
    [x1 |-> Max(0, b.x - pad), x2 |-> Min(pw, b.x + b.width + pad)]

\* processor.py 254-259: the columns kept of half i (0 left, 1 right).
OuterColumns(i, b, pw, pad) ==
    IF i = 0 THEN [x1 |-> Max(0, b.x - pad), x2 |-> pw]
    ELSE [x1 |-> 0, x2 |-> Min(pw, b.x + b.width + pad)]

\* processor.py 237-269: the crop of a split pair.
CropPair(pages, bounds_list, pad) ==
    LET valid == { i \in 1 .. Len(pages) : bounds_list[i] # None }
        y1 == CHOOSE m \in { bounds_list[i].y : i \in valid } :
                  \A i \in valid : m <= bounds_list[i].y
        y2 == CHOOSE m \in { bounds_list[i].y + bounds_list[i].height : i \in valid } :
                  \A i \in valid : bounds_list[i].y + bounds_list[i].height <= m
    IN  IF valid = {} THEN pages
        ELSE [i \in 1 .. Len(pages) |->
                IF bounds_list[i] = None THEN pages[i]
                ELSE LET y1p == Max(0, y1 - pad)
                         y2p == Min(pages[i].h, y2 + pad)
                         c == OuterColumns(i - 1, bounds_list[i], pages[i].w, pad)
                     IN  IF c.x2 <= c.x1 \/ y2p <= y1p THEN pages[i]
                         ELSE Slice(pages[i], c.x1, c.x2, y1p, y2p)]

\* Mutant: the page is put in the top left corner of the canvas.
CanvasOffsetCorner(target, extent) == 0

\* processor.py 294-295: max(0, (target - extent) // 2)
CanvasOffset(target, extent) == Max(0, (target - extent) \div 2)

\* processor.py 278-300: the pages of a pair on canvases of one size.
NormalizePages(pages) ==
    LET target_w == CHOOSE m \in { pages[i].w : i \in 1 .. Len(pages) } :
                        \A i \in 1 .. Len(pages) : pages[i].w <= m
        target_h == CHOOSE m \in { pages[i].h : i \in 1 .. Len(pages) } :
                        \A i \in 1 .. Len(pages) : pages[i].h <= m
    IN  IF Len(pages) <= 1 THEN pages
        ELSE [i \in 1 .. Len(pages) |->
                LET page == pages[i]
                    x_off == CanvasOffset(target_w, page.w)
                    y_off == CanvasOffset(target_h, page.h)
                IN  IF page.w = target_w /\ page.h = target_h THEN page
                    ELSE [w |-> target_w, h |-> target_h,
                          pix |-> [p \in (0 .. target_w - 1) \X (0 .. target_h - 1) |->
                                     IF /\ x_off <= p[1] /\ p[1] < x_off + page.w
                                        /\ y_off <= p[2] /\ p[2] < y_off + page.h
                                     THEN page.pix[<<p[1] - x_off, p[2] - y_off>>]
                                     ELSE WhitePixel]]]

\* What detect_content_bounds may report on a page: nothing, or a box of
\* the page.
BoxesOf(w, h) ==
    {None} \cup
    UNION { { [x |-> x, y |-> y, width |-> bw, height |-> bh] :
                bw \in {1, w - x}, bh \in {1, h - y} } :
            x \in {0, 1}, y \in {0, 1} }

PagesAfterLoop ==
    { <<Page("whole", w, h)>> :
        w \in MaxPageW - 1 .. MaxPageW, h \in MaxPageH - 1 .. MaxPageH }
    \cup { <<Page("left", w, h), Page("right", v, g)>> :
             w \in MaxPageW - 1 .. MaxPageW, h \in MaxPageH - 1 .. MaxPageH,
             v \in MaxPageW - 1 .. MaxPageW, g \in MaxPageH - 1 .. MaxPageH }

OutputInputs ==
    { [pages |-> ps, bounds |-> bs, crop |-> c, crop_padding |-> pad] :
        ps \in PagesAfterLoop,
        bs \in UNION { [1 .. n -> BoxesOf(MaxPageW - 1, MaxPageH - 1)] : n \in 1 .. 2 },
        c \in BOOLEAN, pad \in {0 - 1, 0, 1} }

InitOutput ==
    /\ op = "process.output"
    /\ arg \in { a \in OutputInputs : Len(a.bounds) = Len(a.pages) }
    /\ ret = Running([phase |-> "cropping", pages |-> arg.pages,
                      operations_applied |->
                          IF Len(arg.pages) > 1 THEN <<"split">> ELSE << >>,
                      processed |-> arg.pages,
                      saved |-> << >>, output_paths |-> << >>,
                      output_sizes |-> << >>])
    /\ pd_dewarp_available = "None"
    /\ page_dewarp_installed = TRUE
    /\ observed = << >>

\* processor.py 224-272
OutCrop ==
    /\ op = "process.output" /\ ret.kind = "running" /\ ret.value.phase = "cropping"
    /\ LET v == ret.value
           any == \E i \in 1 .. Len(v.pages) : arg.bounds[i] # None
       IN  /\ ret' = Running(
                 [v EXCEPT
                    !.phase = "normalizing",
                    !.pages =
                        IF ~arg.crop THEN @
                        ELSE IF Len(@) = 1
                        THEN IF arg.bounds[1] # None
                             THEN <<CropToContent(@[1], arg.bounds[1], arg.crop_padding)>>
                             ELSE @
                        ELSE CropPair(@, arg.bounds, arg.crop_padding),
                    !.operations_applied =
                        IF arg.crop /\ any THEN AppendOnce(@, "crop") ELSE @])
           /\ observed' = IF arg.crop
                          THEN observed \o [i \in 1 .. Len(v.pages) |->
                                              Event("detect_content_bounds",
                                                    arg.pages[i].pix[<<0, 0>>][1])]
                          ELSE observed
    /\ UNCHANGED <<op, arg, pd_dewarp_available, page_dewarp_installed>>

\* processor.py 275-301
OutNormalize ==
    /\ op = "process.output" /\ ret.kind = "running" /\ ret.value.phase = "normalizing"
    /\ ret' = Running([ret.value EXCEPT !.phase = "saving",
                                        !.processed = ret.value.pages,
                                        !.pages = NormalizePages(@)])
    /\ UNCHANGED <<op, arg, pd_dewarp_available, page_dewarp_installed, observed>>

\* processor.py 303-321: one turn of the loop; cv2.imwrite raises on an
\* image without pixels.
OutSave ==
    /\ op = "process.output" /\ ret.kind = "running" /\ ret.value.phase = "saving"
    /\ Len(ret.value.saved) < Len(ret.value.pages)
    /\ LET v == ret.value
           i == Len(v.saved) + 1
           page == v.pages[i]
       IN  ret' = IF page.w = 0 \/ page.h = 0 THEN Raised("cv2.error")
                  ELSE Running(
                      [v EXCEPT
                         !.saved = Append(@, page),
                         !.output_paths = Append(@, PageSuffixes(Len(v.pages))[i]),
                         !.output_sizes = Append(@, [width |-> page.w,
                                                     height |-> page.h])])
    /\ UNCHANGED <<op, arg, pd_dewarp_available, page_dewarp_installed, observed>>

\* processor.py 323-340
OutReturn ==
    /\ op = "process.output" /\ ret.kind = "running" /\ ret.value.phase = "saving"
    /\ Len(ret.value.saved) = Len(ret.value.pages)
    /\ ret' = Returned([processed |-> ret.value.processed,
                        saved |-> ret.value.saved,
                        output_paths |-> ret.value.output_paths,
                        output_sizes |-> ret.value.output_sizes,
                        operations_applied |-> ret.value.operations_applied])
    /\ UNCHANGED <<op, arg, pd_dewarp_available, page_dewarp_installed, observed>>

NextOutput ==
    \/ OutCrop
    \/ OutNormalize
    \/ OutSave
    \/ OutReturn

SpecOutput == InitOutput /\ [][NextOutput]_vars

---------------------------------------------------------------------------
(* C15: in PageProcessor.process with deskew requested, after a split the  *)
(* angle of each half is detected on that half, after the split, and is    *)
(* the one used for it; without a split the page uses the angle detected   *)
(* on the whole image in the detection phase.                              *)

\* A finished process call that was asked to deskew.
C15_DeskewDone ==
    op = "process" /\ ret.kind = "return" /\ "deskew" \in arg.operations

\* The angle detect_skew_angle gives on the k-th half.
C15_OwnAngle(k) ==
    LET half == SplitPages(arg)[k]
    IN  IF half.s.contrast < 50 \/ half.s.est_raises \/ half.s.count = 0
           \/ ResizeForAnalysis(half.h, half.w).h < 10
           \/ ResizeForAnalysis(half.h, half.w).w < 10
        THEN 0
        ELSE SkewGuardrails(-half.s.line_angle,
                            HoughConfidence(half.s.count, half.s.angle_std))

\* Every detection on a half comes after the split, and every rotation of
\* a half after the detection on that half.
C15_Order ==
    \A k \in 1 .. Len(observed) :
        LET e == observed[k]
        IN  /\ (e.call = "detect_skew_angle" /\ e.on # "whole")
                 => \E j \in 1 .. k - 1 : observed[j].call = "split_facing_pages"
            /\ (e.call = "deskew_page" /\ e.on # "whole")
                 => \E j \in 1 .. k - 1 :
                        observed[j] = Event("detect_skew_angle", e.on)

C15_AnglePerPage ==
    LET pages == ret.value.pages
    IN  IF Len(pages) > 1
        THEN \A k \in 1 .. Len(pages) : pages[k].page_skew = C15_OwnAngle(k)
        ELSE pages[1].page_skew = ret.value.detection.skew_angle

C15_WitnessBelowFloor ==
    /\ C15_DeskewDone
    /\ Len(ret.value.pages) = 2
    /\ ret.value.pages[1].page_skew = 7
    /\ ret.value.pages[1].deskew_called /\ ~ret.value.pages[1].rotated

\* No split: the page uses the whole-image angle.
C15_WitnessSingle ==
    /\ C15_DeskewDone
    /\ Len(ret.value.pages) = 1
    /\ ret.value.pages[1].page_skew = -2 * Deg /\ ret.value.pages[1].rotated

---------------------------------------------------------------------------
(* C16: the whole-page scorer detect_curvature and the stage scorer of     *)
(* detect_dewarp return the same score min(1, mean curvature / 10), in     *)
(* [0, 1], for the same per-line curvatures, so that min_curvature selects *)
(* the same pages in PageProcessor.process as in detect_dewarp.            *)
(* The whole-page score is in 1/10 and the stage score in 1/100.           *)
C16_SameScoreBothEntryPoints ==
    (op = "process" /\ ret.kind = "return" /\ "dewarp" \in arg.operations) =>
        LET whole == ret.value.detection.curvature_score
            stage == DetectCurvatureLines(arg.w, arg.lines).value.score
        IN  /\ 10 * whole = stage
            /\ 0 <= whole /\ 10 * whole <= Pct
            /\ \A k \in 1 .. Len(ret.value.pages) :
                 ret.value.pages[k].dewarp_called
                    <=> stage >= 10 * arg.min_curvature

---------------------------------------------------------------------------
(* C17: the curvature scorer never errors on lack of signal: with fewer    *)
(* than 3 candidate lines, or with no candidate of at least 10 contour     *)
(* points, it returns score 0 and confidence 0; a skipped line leaves the  *)
(* mean of the other lines as the score.                                   *)
C17_ScoredAsStated ==
    LET fitted == SelectSeq(arg.lines, LAMBDA c : c >= 0)
    IN  IF Len(arg.lines) < 3 \/ fitted = << >>
        THEN /\ ret.kind = "return"
             /\ ret.value.curvature_score = 0
             /\ ret.value.confidence = 0
        ELSE /\ ret.kind = "return"
             /\ ret.value.curvature_score
                  = Min(Pct, SumSeq(fitted) \div Len(fitted))

C17_NoSignalGivesZero ==
    (op = "detect_dewarp" /\ ret # Pending) => C17_ScoredAsStated

\* The same from 20 columns on, where the dilation kernel (w // 20, 1) exists.
C17_NoSignalGivesZeroFromTwentyColumns ==
    (op = "detect_dewarp" /\ ret # Pending /\ arg.w >= 20) => C17_ScoredAsStated

---------------------------------------------------------------------------
(* C18: detect_content_bounds returns absent exactly when, after the       *)
(* border ring of the binarized analysis image is zeroed, no foreground    *)
(* pixel is left, or the foreground bounding box is narrower than a tenth  *)
(* of the analysis width or shorter than a tenth of the analysis height;   *)
(* in every other case it returns a box.                                   *)
C18_AbsentExactlyWhenEmptyOrSmall ==
    (op = "detect_content_bounds" /\ ret # Pending) =>
        LET an == ResizeForAnalysis(arg.h, arg.w)
            absent == \/ arg.fg = None
                      \/ 10 * (arg.fg.x2 - arg.fg.x1 + 1) < an.w
                      \/ 10 * (arg.fg.y2 - arg.fg.y1 + 1) < an.h
        IN  /\ ret.kind = "return"
            /\ (ret.value = None) <=> absent
            /\ ~absent => (ret.value.width >= 1 /\ ret.value.height >= 1)

\* Foreground that is left after the ring but is too narrow: absent.
C18_Witness ==
    /\ op = "detect_content_bounds" /\ ret = Returned(None)
    /\ arg.fg # None
    /\ 10 * (arg.fg.x2 - arg.fg.x1 + 1) < ResizeForAnalysis(arg.h, arg.w).w
    /\ 10 * (arg.fg.y2 - arg.fg.y1 + 1) >= ResizeForAnalysis(arg.h, arg.w).h

\* Foreground exactly a tenth of the analysis width wide: a box.
C18_WitnessTenth ==
    /\ op = "detect_content_bounds" /\ ret # Pending /\ ret.value # None
    /\ arg.fg # None
    /\ 10 * (arg.fg.x2 - arg.fg.x1 + 1) = ResizeForAnalysis(arg.h, arg.w).w

\* Nothing left after the ring: absent.
C18_WitnessEmpty ==
    op = "detect_content_bounds" /\ ret = Returned(None) /\ arg.fg = None

---------------------------------------------------------------------------
(* C19: every SplitResult of detect_split has its position in [0, 1], the  *)
(* mean of the positions of the methods with confidence above 0.3 weighted *)
(* by their weighted confidences, or 0.5 when no method qualifies;         *)
(* should_split holds iff 0.1 aspect + 0.4 valley + 0.3 gutter             *)
(* + 0.2 symmetry reaches min_confidence; split_type is "vertical" exactly *)
(* when should_split holds and "none" otherwise.                           *)

\* The methods of the call that vote on the position.
C19_Voters ==
    { i \in 1 .. 4 : SplitMethods(arg)[i].confidence > 30 }

\* Sum over the voters of f(method).
RECURSIVE C19_Sum(_, _)
C19_Sum(voters, withPosition) ==
    IF voters = {} THEN 0
    ELSE LET i == CHOOSE k \in voters : TRUE
             m == SplitMethods(arg)[i]
         IN  m.confidence * m.weight * (IF withPosition THEN m.position ELSE 1)
               + C19_Sum(voters \ {i}, withPosition)

C19_SplitResultConsistent ==
    (op = "detect_split" /\ ret # Pending) =>
        LET m == SplitMethods(arg)
            total == m[1].confidence + 4 * m[2].confidence
                       + 3 * m[3].confidence + 2 * m[4].confidence
            r == ret.value
        IN  /\ ret.kind = "return"
            /\ 0 <= r.position /\ r.position <= Milli
            /\ r.position = IF C19_Voters = {} THEN Milli \div 2
                            ELSE C19_Sum(C19_Voters, TRUE)
                                   \div C19_Sum(C19_Voters, FALSE)
            /\ \A i \in 1 .. 4 : m[i].position \in 0 .. Milli
            /\ r.should_split <=> total >= arg.min_confidence
            /\ r.split_type = IF r.should_split THEN "vertical" ELSE "none"
            /\ r.split_type \in {"vertical", "none"}

\* A spread that is split, with the valley and the gutter shadow voting for
\* a position off the centre.
C19_Witness ==
    /\ op = "detect_split" /\ ret # Pending
    /\ ret.value.should_split /\ ret.value.split_type = "vertical"
    /\ C19_Voters = {2, 3}
    /\ ret.value.position # Milli \div 2

\* No method above 0.3: position 0.5 and no split.
C19_WitnessNoVoter ==
    /\ op = "detect_split" /\ ret # Pending
    /\ C19_Voters = {}
    /\ SplitMethods(arg)[3].confidence > 0
    /\ ret.value.position = Milli \div 2
    /\ ~ret.value.should_split /\ ret.value.split_type = "none"

---------------------------------------------------------------------------
(* C20: the pad command never scales or crops.  It succeeds iff the target *)
(* width and height are positive and the input fits, and then writes an    *)
(* image of exactly the target size, the input copied unchanged at offset  *)
(* ((target_w - w) // 2, (target_h - h) // 2) on white; otherwise it       *)
(* reports INVALID_TARGET or TARGET_TOO_SMALL (LOAD_FAILED for an          *)
(* unreadable input), exits with status 1, writes no image and emits no    *)
(* result line.                                                            *)

C20_Fits ==
    /\ arg.target_w > 0 /\ arg.target_h > 0
    /\ arg.w <= arg.target_w /\ arg.h <= arg.target_h

\* The written image is the input at the centred offset, every other pixel
\* having the value white.
C20_CentredOn(white) ==
    LET out == ret.value.written
        x_off == (arg.target_w - arg.w) \div 2
        y_off == (arg.target_h - arg.h) \div 2
    IN  /\ out.width = arg.target_w /\ out.height = arg.target_h
        /\ DOMAIN out.canvas
             = (0 .. arg.target_w - 1) \X (0 .. arg.target_h - 1)
        /\ \A p \in DOMAIN out.canvas :
             IF /\ x_off <= p[1] /\ p[1] < x_off + arg.w
                /\ y_off <= p[2] /\ p[2] < y_off + arg.h
             THEN out.canvas[p] = <<p[1] - x_off, p[2] - y_off>>
             ELSE out.canvas[p] = white

C20_Failure ==
    /\ ret.value.status = 1
    /\ ret.value.written = None
    /\ ret.value.results = 0
    /\ ret.value.stderr =
         <<IF ~arg.readable THEN "LOAD_FAILED"
           ELSE IF arg.target_w <= 0 \/ arg.target_h <= 0 THEN "INVALID_TARGET"
           ELSE "TARGET_TOO_SMALL">>

C20_PadNeverScalesOrCrops ==
    (op = "pad" /\ ret # Pending) =>
        IF arg.readable /\ C20_Fits
        THEN /\ ret.value.status = 0 /\ ret.value.results = 1
             /\ ret.value.stderr = << >>
             /\ C20_CentredOn(2 ^ arg.depth - 1)
        ELSE C20_Failure

\* The same for 8-bit input whose output can be written.
C20_PadEightBitWritable ==
    (op = "pad" /\ ret # Pending /\ arg.depth = 8 /\ arg.write = "true") =>
        IF arg.readable /\ C20_Fits
        THEN /\ ret.value.status = 0 /\ ret.value.results = 1
             /\ ret.value.stderr = << >>
             /\ C20_CentredOn(255)
        ELSE C20_Failure

---------------------------------------------------------------------------
(* C21: every run of the command line that passes argument parsing ends    *)
(* with one result line on stdout and exit status 0, or with one error     *)
(* object on stderr and exit status 1, never both and never neither; every *)
(* progress line is written before the result line, so the result is the   *)
(* last line on stdout of a successful run.                                *)

C21_Count(lines, kind) ==
    Cardinality({ i \in 1 .. Len(lines) : lines[i] = kind })

C21_Streams == ret.value

C21_WitnessExit ==
    /\ op = "main" /\ ret.kind = "return" /\ ret.value.status = 1
    /\ ret.value.stderr = <<"INVALID_DPI">>

\* A process run whose work raised after progress lines were sent.
C21_WitnessRaised ==
    /\ op = "main" /\ ret.kind = "return" /\ arg.command = "process"
    /\ ret.value.stdout = <<"progress", "progress">>
    /\ ret.value.stderr = <<"PROCESSING_ERROR">>

---------------------------------------------------------------------------
(* C22: detect_deskew fuses the line-based and the projection estimate     *)
(* with the fixed weights 0.55 and 0.45: the fused confidence is           *)
(* 0.55 conf_line + 0.45 conf_projection, and both are 0 when both         *)
(* confidences are 0.  The result of the call is the fused pair after the  *)
(* clamp to max_angle, the rounding and the limit of the confidence.       *)

C22_Line == StageSkewHough(arg).value

C22_Projection == StageSkewProjection(arg)

C22_Reported(angle, confidence) ==
    LET final == ClampAngle([angle |-> angle, confidence |-> confidence],
                            arg.max_angle)
    IN  /\ ret.value.angle = Round3(final.angle)
        /\ ret.value.confidence = Min(DeskewConfUnit, final.confidence)

C22_FusedConfidence ==
    2 * (11 * C22_Line.confidence + 9 * C22_Projection.confidence)

\* As stated: fused angle = 0.55 angle_line + 0.45 angle_projection.
C22_FixedWeightAverage ==
    (op = "detect_deskew" /\ ret # Pending /\ ret.kind = "return") =>
        IF C22_Line.confidence = 0 /\ C22_Projection.confidence = 0
        THEN ret.value.angle = 0 /\ ret.value.confidence = 0
        ELSE C22_Reported(
                 RoundSigned(11 * C22_Line.angle + 9 * C22_Projection.angle, 20),
                 C22_FusedConfidence)

\* As the code has it: each angle counts with weight * confidence,
\* fused angle = (0.55 conf_line angle_line + 0.45 conf_projection
\* angle_projection) / (0.55 conf_line + 0.45 conf_projection).
C22_ConfidenceWeightedAverage ==
    (op = "detect_deskew" /\ ret # Pending /\ ret.kind = "return") =>
        IF C22_Line.confidence = 0 /\ C22_Projection.confidence = 0
        THEN ret.value.angle = 0 /\ ret.value.confidence = 0
        ELSE C22_Reported(
                 RoundSigned(11 * C22_Line.confidence * C22_Line.angle
                             + 9 * C22_Projection.confidence * C22_Projection.angle,
                             11 * C22_Line.confidence
                             + 9 * C22_Projection.confidence),
                 C22_FusedConfidence)

\* Two estimates of different angle and different, non-zero confidence.
C22_Witness ==
    /\ op = "detect_deskew" /\ ret # Pending /\ ret.kind = "return"
    /\ C22_Line.confidence > C22_Projection.confidence
    /\ C22_Projection.confidence > 0
    /\ C22_Line.angle # C22_Projection.angle
    /\ ret.value.angle # 0

\* Both confidences 0 with a non-zero projection angle: angle and confidence 0.
C22_WitnessZero ==
    /\ op = "detect_deskew" /\ ret # Pending /\ ret.kind = "return"
    /\ C22_Line.confidence = 0 /\ C22_Projection.confidence = 0
    /\ C22_Projection.angle # 0
    /\ ret.value.angle = 0 /\ ret.value.confidence = 0

---------------------------------------------------------------------------
(* C23: for the same retained segments both line-based estimators return   *)
(* the same correction angle, the negation of the length-weighted mean of  *)
(* the segment angles, so that |angle| <= max_angle; with no retained      *)
(* segment both return angle 0 and confidence 0.                           *)

\* The length-weighted mean of the retained angles of the call.
C23_WeightedMean ==
    LET kept == SelectSeq(arg.segments,
                          LAMBDA g : Abs(g.dx) >= 1 /\ Abs(g.angle) <= arg.max_angle)
    IN  RoundSigned(SumSeq([i \in DOMAIN kept |-> kept[i].angle * kept[i].length]),
                    SumSeq([i \in DOMAIN kept |-> kept[i].length]))

C23_NoneRetained ==
    \A i \in DOMAIN arg.segments :
        Abs(arg.segments[i].dx) < 1 \/ Abs(arg.segments[i].angle) > arg.max_angle

C23_BothNegateWeightedMean ==
    (op \in {"_detect_skew_hough", "detect_skew_hough"} /\ ret # Pending) =>
        IF C23_NoneRetained
        THEN ret.value.angle = 0 /\ ret.value.confidence = 0
        ELSE /\ ret.value.angle = -C23_WeightedMean
             /\ Abs(ret.value.angle) <= arg.max_angle

\* What holds of both: the magnitude, and the sign for the whole-page one.
C23_SameMagnitude ==
    (op \in {"_detect_skew_hough", "detect_skew_hough"} /\ ret # Pending) =>
        IF C23_NoneRetained
        THEN ret.value.angle = 0 /\ ret.value.confidence = 0
        ELSE /\ ret.value.angle = IF op = "_detect_skew_hough"
                                  THEN -C23_WeightedMean ELSE C23_WeightedMean
             /\ Abs(ret.value.angle) <= arg.max_angle

---------------------------------------------------------------------------
(* C24: _best_saddle_valley on a curve of n non-negative values returns    *)
(* (i, c) with 0 <= i < n and c in [0, 1]; c > 0 only if i lies outside    *)
(* the padding excluded at each end and curve[i] is strictly below the     *)
(* maximum on its left and the maximum on its right; then i maximises      *)
(* min(left max, right max) - curve[i] over the non-excluded indices and c *)
(* is that depth divided by min(left max, right max); on a constant or     *)
(* monotonic curve, and on a curve with no index outside the padding,      *)
(* c = 0 and i = n // 2.                                                   *)

C24_N == Len(arg)

C24_LeftMax(i) ==
    IF i = 0 THEN 0
    ELSE CHOOSE m \in { arg[k + 1] : k \in 0 .. i - 1 } :
             \A k \in 0 .. i - 1 : arg[k + 1] <= m

C24_RightMax(i) ==
    IF i = C24_N - 1 THEN 0
    ELSE CHOOSE m \in { arg[k + 1] : k \in i + 1 .. C24_N - 1 } :
             \A k \in i + 1 .. C24_N - 1 : arg[k + 1] <= m

C24_Peak(i) ==
    IF C24_LeftMax(i) <= C24_RightMax(i) THEN C24_LeftMax(i) ELSE C24_RightMax(i)

C24_Depth(i) == C24_Peak(i) - arg[i + 1]

C24_Monotonic ==
    \/ \A k \in 1 .. C24_N - 1 : arg[k] <= arg[k + 1]
    \/ \A k \in 1 .. C24_N - 1 : arg[k] >= arg[k + 1]

\* The statement for a padding of pad positions at each end.
C24_SaddleWithPadding(pad) ==
    LET i == ret.value.index
        c == ret.value.confidence
        open == { j \in 0 .. C24_N - 1 : pad <= j /\ j < C24_N - pad }
    IN  /\ C24_N >= 1 => (0 <= i /\ i < C24_N)
        /\ 0 <= c /\ c <= Milli
        /\ IF \E j \in open : C24_Depth(j) > 0
           THEN /\ i \in open
                /\ arg[i + 1] < C24_LeftMax(i) /\ arg[i + 1] < C24_RightMax(i)
                /\ \A j \in open : C24_Depth(j) <= C24_Depth(i)
                /\ \A j \in open : C24_Depth(j) = C24_Depth(i) => i <= j
                /\ c > 0
                /\ c = RoundHalfEven(C24_Depth(i) * Milli, C24_Peak(i))
           ELSE c = 0 /\ i = C24_N \div 2
        /\ (C24_Monotonic \/ open = {}) => (c = 0 /\ i = C24_N \div 2)

\* As stated: the padding is max(5, n // 20) positions on every curve.
C24_SaddleOutsideFixedPadding ==
    (op = "_best_saddle_valley" /\ ret # Pending) =>
        C24_SaddleWithPadding(IF 5 >= C24_N \div 20 THEN 5 ELSE C24_N \div 20)

\* As the code has it: on a curve of at most 2 * max(5, n // 20) + 1 values
\* the padding is one position; a curve of fewer than 3 values has no index
\* outside it.
C24_SaddleOutsideReducedPadding ==
    (op = "_best_saddle_valley" /\ ret # Pending) =>
        LET pad == IF 5 >= C24_N \div 20 THEN 5 ELSE C24_N \div 20
        IN  C24_SaddleWithPadding(IF C24_N <= 2 * pad + 1 THEN 1 ELSE pad)

\* A curve of 12 values with a dip between two peaks at index 5 or 6.
C24_Witness ==
    /\ op = "_best_saddle_valley" /\ ret # Pending
    /\ Len(arg) = 12
    /\ ret.value.confidence > 0 /\ ret.value.index \in {5, 6}

\* A curve of 11 values with a dip at index 2, inside five positions of the
\* left end, found with confidence above 0.
C24_WitnessShort ==
    /\ op = "_best_saddle_valley" /\ ret # Pending
    /\ Len(arg) = 11
    /\ ret.value.confidence > 0 /\ ret.value.index = 2

\* 120 values with the only dip at index 5, inside the padding of 6: no
\* valley.
C24_WitnessPadded ==
    /\ op = "_best_saddle_valley" /\ ret # Pending
    /\ arg = DipCurve(120, 5)
    /\ ret.value = [index |-> 60, confidence |-> 0]

---------------------------------------------------------------------------
(* C25: _band_edges(curve, idx) on a curve of n >= 1 finite values returns *)
(* inclusive (left, right) with 0 <= left <= j <= right <= n - 1, j being  *)
(* idx clamped to [0, n - 1]; every value of curve[left..right] is at most *)
(* the threshold low + 0.35 * (mean - low) and the interval is maximal;    *)
(* when curve[j] is not below the mean the result is (j, j), and on an     *)
(* empty curve (0, 0).                                                     *)

C25_N == Len(arg.curve)

C25_J ==
    IF arg.idx < 0 THEN 0 ELSE IF arg.idx > C25_N - 1 THEN C25_N - 1 ELSE arg.idx

C25_Least ==
    CHOOSE m \in { arg.curve[k] : k \in 1 .. C25_N } :
        \A k \in 1 .. C25_N : m <= arg.curve[k]

\* curve[k] <= low + 0.35 * (mean - low), times 20 * n.
C25_AtMost(k, low) ==
    20 * C25_N * arg.curve[k + 1]
        <= 20 * C25_N * low + 7 * (SumSeq(arg.curve) - C25_N * low)

\* The maximal run around j of values at most the threshold taken from low.
C25_MaximalBand(low) ==
    LET left == ret.value.left
        right == ret.value.right
    IN  /\ 0 <= left /\ left <= C25_J /\ C25_J <= right /\ right <= C25_N - 1
        /\ \A k \in left .. right : C25_AtMost(k, low)
        /\ left = 0 \/ ~C25_AtMost(left - 1, low)
        /\ right = C25_N - 1 \/ ~C25_AtMost(right + 1, low)

C25_Single == ret.value = [left |-> C25_J, right |-> C25_J]

C25_Stated(low) ==
    IF C25_N = 0 THEN ret.value = [left |-> 0, right |-> 0]
    ELSE IF SumSeq(arg.curve) <= C25_N * arg.curve[C25_J + 1] THEN C25_Single
    ELSE C25_MaximalBand(low)

\* As stated, with the low value read as the least value of the curve or as
\* the value at j, whichever fits the call.
C25_BandBelowThreshold ==
    (op = "_band_edges" /\ ret # Pending) =>
        C25_Stated(C25_Least) \/ C25_Stated(arg.curve[C25_J + 1])

\* As the code has it: the low value is curve[j], and a curve whose mean is
\* not above 0 gives (j, j) whatever its values.
C25_BandBelowThresholdFromIndex ==
    (op = "_band_edges" /\ ret # Pending) =>
        IF C25_N = 0 THEN ret.value = [left |-> 0, right |-> 0]
        ELSE IF SumSeq(arg.curve) <= 0 THEN C25_Single
        ELSE C25_Stated(arg.curve[C25_J + 1])

\* A band of two values around an index that is not at the least value.
C25_Witness ==
    /\ op = "_band_edges" /\ ret # Pending
    /\ C25_N >= 3 /\ SumSeq(arg.curve) > 0
    /\ arg.curve[C25_J + 1] > C25_Least
    /\ ret.value.right - ret.value.left = 1

\* An index past the end is clamped to n - 1 and the band grows leftwards.
C25_WitnessClamped ==
    /\ op = "_band_edges" /\ ret # Pending
    /\ C25_N >= 2 /\ arg.idx = C25_N
    /\ ret.value.right = C25_N - 1 /\ ret.value.left < ret.value.right

\* A curve with a mean below 0 and a neighbour as low as curve[j]: (j, j).
C25_WitnessNegativeMean ==
    /\ op = "_band_edges" /\ ret # Pending
    /\ arg.curve = <<0 - 2, 0 - 2, 0>> /\ arg.idx = 0
    /\ ret.value = [left |-> 0, right |-> 0]

---------------------------------------------------------------------------
(* C28: PageProcessor.process splits iff 'split' is among the requested    *)
(* operations and force_split is set or auto_detect is set and             *)
(* detect_facing_pages returned true; it returns 2 output paths and 2      *)
(* output sizes exactly when it split and 1 otherwise, lists 'split' in    *)
(* operations_applied exactly when it split, returns a split_debug exactly *)
(* when it split, and force_split without 'split' among the operations has *)
(* no effect.                                                              *)

C28_Done == op = "process" /\ ret.kind = "return"

C28_Condition ==
    /\ "split" \in arg.operations
    /\ \/ arg.force_split
       \/ arg.auto_detect /\ DetectFacingPages(arg.h, arg.w, arg.f) = Returned(TRUE)

C28_Listed(name) ==
    \E k \in 1 .. Len(ret.value.operations_applied) :
        ret.value.operations_applied[k] = name

C28_SplitIffRequestedAndForcedOrDetected ==
    C28_Done =>
        LET n == IF C28_Condition THEN 2 ELSE 1
        IN  /\ Len(ret.value.pages) = n
            /\ Len(ret.value.output_paths) = n
            /\ Len(ret.value.output_sizes) = n
            /\ C28_Listed("split") <=> C28_Condition
            /\ ret.value.split_debug # None <=> C28_Condition
            /\ (arg.force_split /\ "split" \notin arg.operations) =>
                   /\ ret.value.pages[1].name = "whole"
                   /\ ret.value.detection.was_facing_pages = FALSE

\* A forced split of an image detect_facing_pages takes for a single page.
C28_Witness ==
    /\ C28_Done
    /\ arg.force_split /\ arg.auto_detect /\ "split" \in arg.operations
    /\ DetectFacingPages(arg.h, arg.w, arg.f) = Returned(FALSE)
    /\ Len(ret.value.output_paths) = 2 /\ ret.value.split_debug # None

\* force_split without 'split' among the operations: one page.
C28_WitnessNotRequested ==
    /\ C28_Done
    /\ arg.force_split /\ "split" \notin arg.operations
    /\ Len(ret.value.output_paths) = 1 /\ ret.value.split_debug = None

\* A detected spread with auto_detect off and no force_split: one page.
C28_WitnessNoAutoDetect ==
    /\ C28_Done
    /\ "split" \in arg.operations /\ ~arg.auto_detect /\ ~arg.force_split
    /\ DetectFacingPages(arg.h, arg.w, arg.f) = Returned(TRUE)
    /\ Len(ret.value.output_paths) = 1

---------------------------------------------------------------------------
(* C30: the operations_applied list PageProcessor.process returns names    *)
(* only requested operations, each at most once, and names an operation    *)
(* only if that step changed at least one output page: 'deskew' is not     *)
(* listed when deskew_page returned its input (|angle| < 0.1) and 'dewarp' *)
(* is not listed when dewarp_page fell back to returning its input.        *)

C30_Applied == ret.value.operations_applied

C30_RequestedOnce ==
    /\ \A k \in 1 .. Len(C30_Applied) : C30_Applied[k] \in arg.operations
    /\ \A k, l \in 1 .. Len(C30_Applied) : C30_Applied[k] = C30_Applied[l] => k = l

C30_ListedOnlyIfChanged ==
    (op = "process" /\ ret.kind = "return") =>
        /\ C30_RequestedOnce
        /\ (\E k \in 1 .. Len(C30_Applied) : C30_Applied[k] = "deskew") =>
               \E i \in 1 .. Len(ret.value.pages) : ret.value.pages[i].rotated
        /\ (\E k \in 1 .. Len(C30_Applied) : C30_Applied[k] = "dewarp") =>
               \E i \in 1 .. Len(ret.value.pages) : ret.value.pages[i].dewarped

\* What holds: only requested operations are listed, each once, and an
\* operation is listed exactly when its function was called on some page.
C30_ListedIffCalled ==
    (op = "process" /\ ret.kind = "return") =>
        /\ C30_RequestedOnce
        /\ (\E k \in 1 .. Len(C30_Applied) : C30_Applied[k] = "deskew") <=>
               \E i \in 1 .. Len(ret.value.pages) : ret.value.pages[i].deskew_called
        /\ (\E k \in 1 .. Len(C30_Applied) : C30_Applied[k] = "dewarp") <=>
               \E i \in 1 .. Len(ret.value.pages) : ret.value.pages[i].dewarp_called

---------------------------------------------------------------------------
(* C26: after a split, PageProcessor.process saves two pages of the same   *)
(* width and the same height, the largest width and the largest height of  *)
(* the two processed pages; each page's pixels are copied unscaled onto a  *)
(* white canvas at the offset ((target_w - pw) // 2, (target_h - ph) // 2) *)
(* and the reported output_sizes are the saved sizes.  Without a split the *)
(* single page is never padded.                                            *)

C26_Largest(S) == CHOOSE m \in S : \A k \in S : k <= m

C26_PaddedToLargest ==
    (op = "process.output" /\ Len(arg.pages) = 2) =>
        /\ ret.kind # "raise"
        /\ ret.kind = "return" =>
             LET v == ret.value
                 target_w == C26_Largest({v.processed[1].w, v.processed[2].w})
                 target_h == C26_Largest({v.processed[1].h, v.processed[2].h})
             IN  /\ Len(v.saved) = 2 /\ Len(v.output_sizes) = 2
                 /\ \A i \in 1 .. 2 :
                      LET page == v.processed[i]
                          x_off == (target_w - page.w) \div 2
                          y_off == (target_h - page.h) \div 2
                      IN  /\ v.saved[i].w = target_w /\ v.saved[i].h = target_h
                          /\ v.output_sizes[i] =
                                 [width |-> target_w, height |-> target_h]
                          /\ DOMAIN v.saved[i].pix =
                                 (0 .. target_w - 1) \X (0 .. target_h - 1)
                          /\ \A p \in DOMAIN v.saved[i].pix :
                                 v.saved[i].pix[p] =
                                     IF /\ x_off <= p[1] /\ p[1] < x_off + page.w
                                        /\ y_off <= p[2] /\ p[2] < y_off + page.h
                                     THEN page.pix[<<p[1] - x_off, p[2] - y_off>>]
                                     ELSE <<"white", 255, 255>>

C26_SinglePageNotPadded ==
    (op = "process.output" /\ Len(arg.pages) = 1 /\ ret.kind = "return") =>
        /\ ret.value.saved = ret.value.processed
        /\ ret.value.output_sizes =
               <<[width |-> ret.value.processed[1].w,
                  height |-> ret.value.processed[1].h]>>

C26_SavedPagesOfOneSize == C26_PaddedToLargest /\ C26_SinglePageNotPadded

\* A pair whose left page is narrower by 1 and lower by 1 than the right.
C26_Witness ==
    /\ op = "process.output" /\ ret.kind = "return"
    /\ Len(ret.value.saved) = 2
    /\ ret.value.processed[1].w + 1 = ret.value.processed[2].w
    /\ ret.value.processed[1].h + 1 = ret.value.processed[2].h
    /\ ret.value.saved[1].w = ret.value.processed[2].w
    /\ ret.value.saved[1].pix[<<0, 0>>] = <<"left", 0, 0>>
    /\ ret.value.saved[1].pix[<<ret.value.saved[1].w - 1, 0>>] = <<"white", 255, 255>>

\* A pair of pages that differ by 2 columns after the crop: one white
\* column on each side.
C26_WitnessCentred ==
    /\ op = "process.output" /\ ret.kind = "return"
    /\ Len(ret.value.saved) = 2
    /\ ret.value.processed[1].w + 2 = ret.value.processed[2].w
    /\ ret.value.processed[1].h = ret.value.processed[2].h
    /\ ret.value.saved[1].pix[<<0, 0>>] = <<"white", 255, 255>>
    /\ ret.value.saved[1].pix[<<ret.value.saved[1].w - 1, 0>>] = <<"white", 255, 255>>

C26_WitnessSingle ==
    /\ op = "process.output" /\ ret.kind = "return"
    /\ Len(ret.value.saved) = 1 /\ arg.crop
    /\ ret.value.saved[1].w < arg.pages[1].w

---------------------------------------------------------------------------
(* C27: when 'crop' runs on a split pair, columns are removed on the outer *)
(* sides only: the left page keeps every column up to its right edge and   *)
(* the right page every column from x = 0; both halves are cropped to the  *)
(* vertical range [min y - pad, max(y + height) + pad] over the halves     *)
(* with detected bounds, clipped to the page; a half with no detected      *)
(* bounds, or whose crop range would be empty, is left uncropped.          *)

C27_Valid == { i \in 1 .. 2 : arg.bounds[i] # None }

C27_Top ==
    CHOOSE m \in { arg.bounds[i].y : i \in C27_Valid } :
        \A i \in C27_Valid : m <= arg.bounds[i].y

C27_Bottom ==
    CHOOSE m \in { arg.bounds[i].y + arg.bounds[i].height : i \in C27_Valid } :
        \A i \in C27_Valid : arg.bounds[i].y + arg.bounds[i].height <= m

C27_Clip(lo, v, hi) == IF v < lo THEN lo ELSE IF v > hi THEN hi ELSE v

\* The window of arg.pages[i] the crop keeps.
C27_Window(i) ==
    LET b == arg.bounds[i]
        pad == arg.crop_padding
        pw == arg.pages[i].w
        ph == arg.pages[i].h
    IN  [x1 |-> IF i = 1 THEN C27_Clip(0, b.x - pad, b.x - pad) ELSE 0,
         x2 |-> IF i = 1 THEN pw ELSE C27_Clip(b.x + b.width + pad, b.x + b.width + pad, pw),
         y1 |-> C27_Clip(0, C27_Top - pad, C27_Top - pad),
         y2 |-> C27_Clip(C27_Bottom + pad, C27_Bottom + pad, ph)]

C27_OuterSidesOnly ==
    (op = "process.output" /\ Len(arg.pages) = 2 /\ arg.crop
         /\ ret.kind = "return") =>
        \A i \in 1 .. 2 :
            LET after == ret.value.processed[i]
                before == arg.pages[i]
            IN  IF arg.bounds[i] = None THEN after = before
                ELSE LET win == C27_Window(i)
                     IN  IF win.x2 <= win.x1 \/ win.y2 <= win.y1 THEN after = before
                         ELSE /\ after.w = win.x2 - win.x1
                              /\ after.h = win.y2 - win.y1
                              /\ DOMAIN after.pix =
                                     (0 .. after.w - 1) \X (0 .. after.h - 1)
                              /\ \A p \in DOMAIN after.pix :
                                     after.pix[p] =
                                         before.pix[<<p[1] + win.x1, p[2] + win.y1>>]

\* Both halves have bounds away from every edge; the left page loses its
\* first column only, the right page its last, and both the same rows.
C27_Witness ==
    /\ op = "process.output" /\ ret.kind = "return"
    /\ Len(arg.pages) = 2 /\ arg.crop /\ arg.crop_padding = 0
    /\ arg.bounds[1] # None /\ arg.bounds[2] # None
    /\ arg.bounds[1].x = 1 /\ arg.bounds[1].width = 1
    /\ arg.bounds[2].x = 1 /\ arg.bounds[2].width = 1
    /\ arg.pages[1].w = 3 /\ arg.pages[2].w = 3
    /\ ret.value.processed[1].w = 2 /\ ret.value.processed[2].w = 2
    /\ ret.value.processed[1].pix[<<1, 0>>][2] = 2
    /\ ret.value.processed[2].pix[<<0, 0>>][2] = 0
    /\ ret.value.processed[1].h = ret.value.processed[2].h
    /\ ret.value.processed[1].h < arg.pages[1].h

\* One half without bounds: it is left as it was, the other is cropped.
C27_WitnessNoBounds ==
    /\ op = "process.output" /\ ret.kind = "return"
    /\ Len(arg.pages) = 2 /\ arg.crop
    /\ arg.bounds[1] = None /\ arg.bounds[2] # None
    /\ ret.value.processed[1] = arg.pages[1]
    /\ ret.value.processed[2] # arg.pages[2]

\* A crop range that would be empty: the half is left as it was.
C27_WitnessEmptyRange ==
    /\ op = "process.output" /\ ret.kind = "return"
    /\ Len(arg.pages) = 2 /\ arg.crop
    /\ arg.bounds[2] # None
    /\ arg.bounds[2].x + arg.bounds[2].width + arg.crop_padding <= 0
    /\ ret.value.processed[2] = arg.pages[2]

---------------------------------------------------------------------------
(* C29: split_facing_pages with overlap 0 partitions the columns of the    *)
(* image: left = [0, g), right = [g, W), the two widths sum to W and no    *)
(* column is lost or duplicated; with overlap o each half reaches o        *)
(* columns past g, clipped to the image; and the gutter g that             *)
(* find_gutter_position chooses on an image of width W >= 2 has            *)
(* 0 < g < W, so the two pages of a forced split are not empty.            *)

C29_Columns(half) == { c \in 0 .. arg.w - 1 : half.from <= c /\ c < half.to }

C29_PartitionAtGutter ==
    (op = "split_facing_pages" /\ ret # Pending) =>
        LET g == ret.value.gutter_x
            left == ret.value.left
            right == ret.value.right
        IN  /\ left.from = 0 /\ right.to = arg.w
            /\ left.to = IF g + arg.overlap > arg.w THEN arg.w ELSE g + arg.overlap
            /\ right.from = IF g - arg.overlap < 0 THEN 0 ELSE g - arg.overlap
            /\ arg.overlap = 0 =>
                 /\ left.to = g /\ right.from = g
                 /\ (left.to - left.from) + (right.to - right.from) = arg.w
                 /\ arg.w <= MaxSmallDim =>
                      /\ C29_Columns(left) \cup C29_Columns(right) = 0 .. arg.w - 1
                      /\ C29_Columns(left) \cap C29_Columns(right) = {}
            /\ (arg.detect /\ arg.w >= 2) =>
                 /\ 0 < g /\ g < arg.w
                 /\ left.to - left.from > 0 /\ right.to - right.from > 0

\* A detected gutter off the centre of a page wide enough to be searched.
C29_Witness ==
    /\ op = "split_facing_pages" /\ ret # Pending
    /\ arg.detect /\ arg.overlap = 0 /\ arg.w >= 14 /\ arg.h = 100
    /\ ret.value.gutter_x # arg.w \div 2
    /\ ret.value.left.to = ret.value.gutter_x
    /\ ret.value.right.from = ret.value.gutter_x

\* The narrowest image that splits in two: one column each.
C29_WitnessTwoColumns ==
    /\ op = "split_facing_pages" /\ ret # Pending
    /\ arg.detect /\ arg.overlap = 0 /\ arg.w = 2
    /\ ret.value.left = [from |-> 0, to |-> 1]
    /\ ret.value.right = [from |-> 1, to |-> 2]

\* An overlap clipped at the right edge of the image.
C29_WitnessOverlapClipped ==
    /\ op = "split_facing_pages" /\ ret # Pending
    /\ ~arg.detect /\ arg.overlap = 2 /\ arg.gutter_x = arg.w - 1 /\ arg.w >= 4
    /\ ret.value.left.to = arg.w
    /\ ret.value.right.from = arg.w - 3

\* One column only: the gutter is 0 and the left page is empty.
C29_WitnessOneColumn ==
    /\ op = "split_facing_pages" /\ ret # Pending
    /\ arg.detect /\ arg.w = 1
    /\ ret.value.gutter_x = 0 /\ ret.value.left.to = 0

=============================================================================
